---- MODULE Spec2Model ----
(***************************************************************************)
(* Model of the polymarket-dashboard ingestion pipeline:                   *)
(*   - the sequential retry queue of lib/polling.ts (processQueue,         *)
(*     enqueueQuery),                                                      *)
(*   - the four ingestion jobs and startPolling / runInitialSync,          *)
(*   - the event store of lib/db.ts (INSERT OR IGNORE inserts, the schema's *)
(*     UNIQUE constraints, the clear-and-sync reset),                      *)
(*   - the trade matcher (filterTradesByTokens, doesTradeMatchTokens),     *)
(*   - the price calculator (calculateTokenPrice, calculateMarketPrices),  *)
(*   - the ancillary-data decoder of lib/decoder.ts,                       *)
(*   - the read API (list markets, get market) and the on-demand routes    *)
(*     (refresh, holders with fetchBalanceUpdates).                        *)
(***************************************************************************)
EXTENDS Integers, Sequences, FiniteSets, TLC

VARIABLES
    queryQueue,              \* polling.ts: let queryQueue: QueuedQuery[]
    isProcessingQueue,       \* polling.ts: let isProcessingQueue
    loops,                   \* the activations of processQueue(): position and job in hand
    jobs,                    \* history: the closures handed to enqueueQuery, in call order
    attempts,                \* history: per job, how many times fn() was called
    sleeps,                  \* history: per job, the sleep(ms) durations, in order
    outcome,                 \* history: per job, "pending" | "done" | "dropped"
    lastFetch,               \* history: the job that called the EventSource last, and whether the call failed
    isPolling,               \* polling.ts: let isPolling
    isInitialSyncInProgress, \* polling.ts: let isInitialSyncInProgress
    initialSyncStartTime,    \* polling.ts: let initialSyncStartTime: <<>> is null, <<t>> a time
    cronTasks,               \* node-cron: the kinds of job whose trigger is registered, one entry
                             \* for each cron.schedule call
    syncPending,             \* runInitialSync: the promises Promise.all still waits for
    tables,                  \* db.ts: the four event tables, rows in insertion order
    sqlite_sequence,         \* SQLite's AUTOINCREMENT counters, one per table
    lastInserts,             \* history: how the inserts of the latest job run ended ("new", "same", "conflict"),
                             \* or "cleared" when the latest write was a reset that deleted rows
    resets,                  \* history: number of clear-and-sync runs
    m_trade,                 \* trade matcher: the trade row examined
    m_tokens,                \* trade matcher: the market's token row {token0, token1}
    m_result,                \* trade matcher: what each of the two matchers answered
    p_trades,                \* price calculator: the trades argument
    p_tokenId,               \* price calculator: the tokenId argument
    p_result,                \* price calculator: the returned PriceInfo, or NULL
    p_labels,                \* price calculator: the outcome labels p1, p2 of the market
    p_market,                \* price calculator: what calculateMarketPrices returned
    r_details,               \* read API: <<questionId, response>> of the latest GET /api/markets/[questionId]
                             \* since the store last changed, else <<>>
    r_list,                  \* read API: <<response>> of the latest GET /api/markets since the store
                             \* last changed, else <<>>
    lastBatch,               \* history: <<kind, events>> of the response the latest batch job
                             \* worked on, else <<>>
    delivered,               \* history: the trade events the EventSource has answered so far
    refresh,                 \* POST /api/markets/[questionId]/refresh: the await the request in
                             \* progress is at, its locals, and the number of requests so far
    d_fields,                \* decoder: the fields written into the input, <<key, value>> each
    d_hexData,               \* decoder: the hexData argument
    d_decoded,               \* decoder: <<text>> returned by decodeAncillaryData, else <<>>
    d_parsed,                \* decoder: <<record>> returned by decodeAndParseAncillaryData, else <<>>
    holders                  \* GET /api/markets/[questionId]/holders: the market's token pair, the
                             \* balance request sent to the EventSource and the holders returned

schedVars == <<queryQueue, isProcessingQueue, loops, jobs, attempts, sleeps, outcome, lastFetch>>
pollVars == <<isPolling, isInitialSyncInProgress, initialSyncStartTime, cronTasks, syncPending>>
storeVars == <<tables, sqlite_sequence, lastInserts, resets>>

matchVars == <<m_trade, m_tokens, m_result>>
priceVars == <<p_trades, p_tokenId, p_result, p_labels, p_market>>
histVars == <<lastBatch, delivered>>
readVars == <<r_details, r_list, histVars, refresh>>
decodeVars == <<d_fields, d_hexData, d_decoded, d_parsed>>
pureVars == <<matchVars, priceVars, readVars, decodeVars, holders>>

vars == <<schedVars, pollVars, storeVars, pureVars>>

----------------------------------------------------------------------------
(* Bounds *)
MaxJobs == 3        \* number of enqueueQuery calls explored
MaxLoops == 2       \* processQueue activations that can be represented at once
MaxPollJobs == 5    \* jobs enqueued by the initial sync and the cron triggers
MaxBatch == 1       \* events in one EventSource response
MaxResets == 1      \* clear-and-sync runs explored
MaxRefreshes == 1   \* on-demand refresh requests explored
MaxFaultBatch == 2  \* events in one response that may hold events without metadata
MaxDelivery == 1    \* trade events in one response to a job or a refresh request
MaxFields == 2      \* optional fields written after title and description
MaxTrades == 3      \* trades handed to the price calculator

(* Program constants *)
DEFAULT_MAX_RETRIES == 3
INITIAL_BACKOFF_MS == 1000
BACKOFF_MULTIPLIER == 2

(* Inputs of enqueueQuery explored by the scheduler specification *)
RetryChoices == {0, DEFAULT_MAX_RETRIES}
BackoffChoices == {1, INITIAL_BACKOFF_MS}

TableNames == {"token_registered_events", "order_filled_events",
               "condition_preparation_events", "question_initialized_events"}

NULL == "<null>"

LoopIds == 1..MaxLoops
NoEntry == [fn |-> 0, retries |-> 0, maxRetries |-> 0, backoffMs |-> 0, name |-> "none"]
IdleLoop == [pc |-> "none", cur |-> NoEntry]

----------------------------------------------------------------------------
(* The scheduler, as functions on the scheduler state                      *)

SchedState ==
    [queryQueue |-> queryQueue, isProcessingQueue |-> isProcessingQueue,
     loops |-> loops, attempts |-> attempts]

\* retries < maxRetries
ShouldRetry_Mutant(q) == q.retries <= q.maxRetries
ShouldRetry(q) == q.retries < q.maxRetries

\* const nextBackoff = backoffMs * BACKOFF_MULTIPLIER
NextBackoff_Mutant(backoffMs) == backoffMs + BACKOFF_MULTIPLIER
NextBackoff(backoffMs) == backoffMs * BACKOFF_MULTIPLIER

\* queryQueue.unshift({fn, retries: retries + 1, maxRetries, backoffMs: nextBackoff, name})
Requeue_Mutant(queue, q) ==
    Append(queue, [fn |-> q.fn, retries |-> q.retries + 1, maxRetries |-> q.maxRetries,
                   backoffMs |-> NextBackoff(q.backoffMs), name |-> q.name])
Requeue(queue, q) ==
    <<[fn |-> q.fn, retries |-> q.retries + 1, maxRetries |-> q.maxRetries,
       backoffMs |-> NextBackoff(q.backoffMs), name |-> q.name]>> \o queue

\* while (queryQueue.length > 0) { const queuedQuery = queryQueue.shift(); ... await fn()
\* and, when the queue is empty, isProcessingQueue = false
WhileLoop(S, l) ==
    IF Len(S.queryQueue) > 0
    THEN [S EXCEPT !.queryQueue = Tail(S.queryQueue),
                   !.loops[l] = [pc |-> "awaitFn", cur |-> Head(S.queryQueue)],
                   !.attempts[Head(S.queryQueue).fn] = @ + 1]
    ELSE [S EXCEPT !.loops[l] = IdleLoop,
                   !.isProcessingQueue = FALSE]

\* if (isProcessingQueue || queryQueue.length === 0) return;
ProcessQueueGuard_Mutant(S) == Len(S.queryQueue) = 0
ProcessQueueGuard(S) == S.isProcessingQueue \/ Len(S.queryQueue) = 0

FreeLoops(S) == {l \in LoopIds : S.loops[l].pc = "none"}

\* processQueue(): returns at once when guarded, else runs up to its first await
ProcessQueue(S) ==
    IF ProcessQueueGuard(S) \/ FreeLoops(S) = {}
    THEN S
    ELSE LET l == CHOOSE x \in FreeLoops(S) : \A y \in FreeLoops(S) : x <= y
         IN  WhileLoop([S EXCEPT !.isProcessingQueue = TRUE], l)

\* an enqueueQuery that pushes the entry and does not call processQueue
EnqueueQuery_PushOnly(S, fn, maxRetries, initialBackoffMs, name) ==
    [S EXCEPT !.queryQueue = Append(@, [fn |-> fn, retries |-> 0,
                                        maxRetries |-> maxRetries,
                                        backoffMs |-> initialBackoffMs,
                                        name |-> name]),
              !.attempts = @ @@ (fn :> 0)]
\* enqueueQuery(queryFn, {maxRetries, initialBackoffMs, name})
EnqueueQuery(S, fn, maxRetries, initialBackoffMs, name) ==
    ProcessQueue(
        [S EXCEPT !.queryQueue = Append(@, [fn |-> fn, retries |-> 0,
                                            maxRetries |-> maxRetries,
                                            backoffMs |-> initialBackoffMs,
                                            name |-> name]),
                  !.attempts = @ @@ (fn :> 0)])

SetSched(S) ==
    /\ queryQueue' = S.queryQueue
    /\ isProcessingQueue' = S.isProcessingQueue
    /\ loops' = S.loops
    /\ attempts' = S.attempts

\* what the drain loop is doing (recorded in the history of a job at its enqueue)
DrainPhase ==
    IF \E l \in LoopIds : loops[l].pc = "sleep" THEN "sleep"
    ELSE IF \E l \in LoopIds : loops[l].pc = "awaitFn" THEN "awaitFn"
    ELSE "idle"

NewJob(kind, maxRetries, initialBackoffMs, during) ==
    [kind |-> kind, maxRetries |-> maxRetries, backoffMs |-> initialBackoffMs,
     during |-> during]

----------------------------------------------------------------------------
(* Scheduler actions with arbitrary jobs                                   *)

\* a caller hands an arbitrary async procedure to enqueueQuery
Enqueue(maxRetries, initialBackoffMs) ==
    /\ Len(jobs) < MaxJobs
    /\ LET id == Len(jobs) + 1
       IN  /\ SetSched(EnqueueQuery(SchedState, id, maxRetries, initialBackoffMs, "fn"))
           /\ jobs' = Append(jobs, NewJob("fn", maxRetries, initialBackoffMs, DrainPhase))
           /\ sleeps' = sleeps @@ (id :> <<>>)
           /\ outcome' = outcome @@ (id :> "pending")
           /\ UNCHANGED <<lastFetch, pollVars, storeVars, pureVars>>

\* await fn() returns: the loop goes on to the next entry
FnReturns(l) ==
    /\ loops[l].pc = "awaitFn"
    /\ jobs[loops[l].cur.fn].kind = "fn"
    /\ SetSched(WhileLoop(SchedState, l))
    /\ outcome' = [outcome EXCEPT ![loops[l].cur.fn] = "done"]
    /\ UNCHANGED <<jobs, sleeps, lastFetch, pollVars, storeVars, pureVars>>

\* await fn() throws and retries < maxRetries: await sleep(backoffMs)
FnThrowsRetry(l) ==
    /\ loops[l].pc = "awaitFn"
    /\ jobs[loops[l].cur.fn].kind = "fn"
    /\ ShouldRetry(loops[l].cur)
    /\ loops' = [loops EXCEPT ![l].pc = "sleep"]
    /\ sleeps' = [sleeps EXCEPT ![loops[l].cur.fn] = Append(@, loops[l].cur.backoffMs)]
    /\ UNCHANGED <<queryQueue, isProcessingQueue, jobs, attempts, outcome, lastFetch, pollVars, storeVars, pureVars>>

\* a loop that ends when it gives a job up
FnThrowsGiveUp_EndsLoop(l) ==
    /\ loops[l].pc = "awaitFn"
    /\ jobs[loops[l].cur.fn].kind = "fn"
    /\ ~ShouldRetry(loops[l].cur)
    /\ loops' = [loops EXCEPT ![l] = IdleLoop]
    /\ isProcessingQueue' = FALSE
    /\ outcome' = [outcome EXCEPT ![loops[l].cur.fn] = "dropped"]
    /\ UNCHANGED <<queryQueue, attempts, jobs, sleeps, lastFetch, pollVars, storeVars, pureVars>>
\* await fn() throws and retries == maxRetries: give up, the loop goes on
FnThrowsGiveUp(l) ==
    /\ loops[l].pc = "awaitFn"
    /\ jobs[loops[l].cur.fn].kind = "fn"
    /\ ~ShouldRetry(loops[l].cur)
    /\ SetSched(WhileLoop(SchedState, l))
    /\ outcome' = [outcome EXCEPT ![loops[l].cur.fn] = "dropped"]
    /\ UNCHANGED <<jobs, sleeps, lastFetch, pollVars, storeVars, pureVars>>

\* the backoff timer fires: unshift the entry and go round the loop
SleepDone(l) ==
    /\ loops[l].pc = "sleep"
    /\ SetSched(WhileLoop([SchedState EXCEPT
                             !.queryQueue = Requeue(queryQueue, loops[l].cur)], l))
    /\ UNCHANGED <<jobs, sleeps, outcome, lastFetch, pollVars, storeVars, pureVars>>

\* no decoder call has been made
DecodeIdle ==
    /\ d_fields = <<>>
    /\ d_hexData = <<>>
    /\ d_decoded = <<>>
    /\ d_parsed = <<>>

\* no holders request has been made
IdleHolders ==
    [pc |-> "idle", token0 |-> NULL, token1 |-> NULL, sent |-> FALSE, query |-> <<>>,
     status |-> 0, balanceUpdates |-> <<>>]

\* no matcher or price call has been made
IdleRefresh == [pc |-> "idle", conditionId |-> NULL, token0 |-> NULL, token1 |-> NULL, count |-> 0]

PureIdle ==
    /\ m_trade = [maker_asset_id |-> NULL, taker_asset_id |-> NULL]
    /\ m_tokens = [token0 |-> NULL, token1 |-> NULL]
    /\ m_result = [db |-> <<>>, route |-> <<>>]
    /\ p_trades = <<>>
    /\ p_tokenId = NULL
    /\ p_result = <<>>
    /\ p_labels = [p1 |-> "", p2 |-> ""]
    /\ p_market = <<>>
    /\ r_details = <<>>
    /\ r_list = <<>>
    /\ refresh = IdleRefresh
    /\ lastBatch = <<>>
    /\ delivered = {}
    /\ DecodeIdle
    /\ holders = IdleHolders

\* the module state of polling.ts and an empty database after initializeDatabase
SystemIdle ==
    /\ queryQueue = <<>>
    /\ isProcessingQueue = FALSE
    /\ loops = [l \in LoopIds |-> IdleLoop]
    /\ jobs = <<>>
    /\ attempts = <<>>
    /\ sleeps = <<>>
    /\ outcome = <<>>
    /\ lastFetch = [fn |-> 0, failed |-> FALSE, cause |-> "none"]
    /\ isPolling = FALSE
    /\ isInitialSyncInProgress = FALSE
    /\ initialSyncStartTime = <<>>
    /\ cronTasks = <<>>
    /\ syncPending = {}
    /\ tables = [t \in TableNames |-> <<>>]
    /\ sqlite_sequence = [t \in TableNames |-> 0]
    /\ lastInserts = {}
    /\ resets = 0

Init == SystemIdle /\ PureIdle

SchedInit == Init

SchedNext ==
    \/ \E m \in RetryChoices, b \in BackoffChoices : Enqueue(m, b)
    \/ \E l \in LoopIds : FnReturns(l)
    \/ \E l \in LoopIds : FnThrowsRetry(l)
    \/ \E l \in LoopIds : FnThrowsGiveUp(l)
    \/ \E l \in LoopIds : SleepDone(l)

SpecSched == SchedInit /\ [][SchedNext]_vars

\* the attempt in progress ends, by returning or by throwing
AttemptEnds ==
    \E l \in LoopIds : FnReturns(l) \/ FnThrowsRetry(l) \/ FnThrowsGiveUp(l)

\* the setTimeout of sleep(backoffMs) fires
TimerFires == \E l \in LoopIds : SleepDone(l)

\* the callers of the program: enqueueQuery with maxRetries 3 or none, and the
\* default backoff
LiveNext ==
    \/ \E m \in RetryChoices : Enqueue(m, INITIAL_BACKOFF_MS)
    \/ AttemptEnds
    \/ TimerFires

\* every job attempt terminates and every timer fires
SpecSchedLive ==
    SchedInit /\ [][LiveNext]_vars /\ WF_vars(AttemptEnds) /\ WF_vars(TimerFires)

----------------------------------------------------------------------------
(* The event store (lib/db.ts)                                             *)

\* JavaScript truthiness of a string-or-null value: null and '' are falsy
Truthy(x) == x # NULL /\ x # ""

\* x || null
OrNull(x) == IF Truthy(x) THEN x ELSE NULL

\* x || '0'
OrZero(x) == IF Truthy(x) THEN x ELSE "0"

\* The columns each table's UNIQUE constraint is declared on
UniqueKey(t, r) ==
    CASE t = "token_registered_events" -> <<r.transaction_hash, r.condition_id>>
      [] t = "order_filled_events" -> <<r.order_hash>>
      [] t = "condition_preparation_events" -> <<r.condition_id>>
      [] t = "question_initialized_events" -> <<r.question_id>>

\* The natural key the data model gives each entity
NaturalKey(t, r) ==
    CASE t = "token_registered_events" -> r.condition_id
      [] t = "order_filled_events" -> r.order_hash
      [] t = "condition_preparation_events" -> r.condition_id
      [] t = "question_initialized_events" -> r.question_id

DbState == [tables |-> tables, sqlite_sequence |-> sqlite_sequence, lastInserts |-> {}]

WithId(r, id) == [c \in DOMAIN r \cup {"id"} |-> IF c = "id" THEN id ELSE r[c]]

\* history: an insert is "same" when a stored row has the values of r in every
\* column, "conflict" when a stored row has its unique columns and other values
\* elsewhere, "new" when no stored row has its unique columns
Record(D, t, r) ==
    LET hits == {i \in 1..Len(D.tables[t]) : UniqueKey(t, D.tables[t][i]) = UniqueKey(t, r)}
        class == IF hits = {} THEN "new"
                 ELSE IF \E i \in hits : D.tables[t][i] = WithId(r, D.tables[t][i].id)
                      THEN "same" ELSE "conflict"
    IN  [D EXCEPT !.lastInserts = @ \cup {class}]

Conflicts(D, t, r) ==
    \E i \in 1..Len(D.tables[t]) : UniqueKey(t, D.tables[t][i]) = UniqueKey(t, r)

\* INSERT OR REPLACE: the conflicting row is deleted and the new one appended
InsertOrIgnore_Replace(D, t, r) ==
    LET kept == SelectSeq(D.tables[t], LAMBDA x : UniqueKey(t, x) # UniqueKey(t, r))
    IN  [Record(D, t, r) EXCEPT
                  !.tables[t] = Append(kept, WithId(r, D.sqlite_sequence[t] + 1)),
                  !.sqlite_sequence[t] = @ + 1]

\* plain INSERT into a table without the constraint
InsertOrIgnore_Always(D, t, r) ==
    [Record(D, t, r) EXCEPT
              !.tables[t] = Append(@, WithId(r, D.sqlite_sequence[t] + 1)),
              !.sqlite_sequence[t] = @ + 1]

\* INSERT OR IGNORE INTO t (...) VALUES (...)
InsertOrIgnore(D, t, r) ==
    IF Conflicts(D, t, r)
    THEN Record(D, t, r)
    ELSE [Record(D, t, r) EXCEPT
                   !.tables[t] = Append(@, WithId(r, D.sqlite_sequence[t] + 1)),
                   !.sqlite_sequence[t] = @ + 1]

insertTokenRegisteredEvent(D, event) ==
    InsertOrIgnore(D, "token_registered_events",
        [condition_id |-> event.condition_id,
         token0 |-> OrNull(event.token0),
         token1 |-> OrNull(event.token1),
         block_time |-> event.block_time,
         transaction_hash |-> event.transaction_hash])

insertOrderFilledEvent(D, event) ==
    InsertOrIgnore(D, "order_filled_events",
        [order_hash |-> event.order_hash,
         maker |-> event.maker,
         taker |-> event.taker,
         maker_asset_id |-> event.maker_asset_id,
         taker_asset_id |-> event.taker_asset_id,
         maker_amount_filled |-> event.maker_amount_filled,
         taker_amount_filled |-> event.taker_amount_filled,
         block_time |-> event.block_time,
         transaction_hash |-> event.transaction_hash])

insertConditionPreparationEvent(D, event) ==
    InsertOrIgnore(D, "condition_preparation_events",
        [condition_id |-> event.condition_id,
         question_id |-> event.question_id,
         outcome_slot_count |-> OrNull(event.outcome_slot_count),
         block_time |-> event.block_time,
         transaction_hash |-> event.transaction_hash])

insertQuestionInitializedEvent(D, event) ==
    InsertOrIgnore(D, "question_initialized_events",
        [question_id |-> event.question_id,
         ancillary_data |-> event.ancillary_data,
         ancillary_data_decoded |-> event.ancillary_data_decoded,
         block_time |-> event.block_time,
         transaction_hash |-> event.transaction_hash])

\* the reset that forgets the auto-numbering step
ClearTables_KeepSequence(D) ==
    [D EXCEPT !.tables = [t \in TableNames |-> <<>>],
              !.lastInserts = IF \E t \in TableNames : D.tables[t] # <<>> THEN {"cleared"} ELSE {}]
\* DELETE FROM each table; DELETE FROM sqlite_sequence
ClearTables(D) ==
    [D EXCEPT !.tables = [t \in TableNames |-> <<>>],
              !.sqlite_sequence = [t \in TableNames |-> 0],
              !.lastInserts = IF \E t \in TableNames : D.tables[t] # <<>> THEN {"cleared"} ELSE {}]

\* condPrepCount.count > 0 && questionInitCount.count > 0
areAllTablesFilled(D) ==
    /\ Len(D.tables["condition_preparation_events"]) > 0
    /\ Len(D.tables["question_initialized_events"]) > 0

SetDb(D) ==
    /\ tables' = D.tables
    /\ sqlite_sequence' = D.sqlite_sequence
    /\ lastInserts' = D.lastInserts

----------------------------------------------------------------------------
(* The ingestion jobs (lib/polling.ts)                                     *)

\* Text is a sequence of pieces: the key tokens, the comma, the blank, and
\* words (pieces holding no comma and no key).  A hex string is the sequence
\* of the byte groups encoding the pieces, possibly with the prefix "0x" in
\* front and with zero bytes "00" among them; <<>> is the absent or empty
\* argument.  A nullable text column holds <<>> for NULL and <<v>> for v.
KeyTokens == {"title:", "description:", "market_id:", "res_data:", "p1:", "p2:", "p3:", "initializer:"}
Comma == ","
Blank == " "
ZeroByte == "00"
HexPrefix == "0x"
InvalidHex == "zz"          \* two characters that are no hex digits
InvalidUtf8 == "ff"         \* a byte that starts no UTF-8 sequence
OddNibble == "4"            \* the single digit that ends a string of odd length
Replacement == "U+FFFD"     \* what TextDecoder puts for InvalidUtf8
ControlChar == "U+0004"     \* the character of byte 4

\* parseInt(hex.substr(i, 2), 16), then byte > 0: NaN for characters that are
\* no hex digits, and for 0x, whose prefix parseInt takes off
IsPositiveByte(group) == group \notin {ZeroByte, InvalidHex, HexPrefix}

\* new TextDecoder('utf-8').decode(...) of one group of bytes
DecodeGroup(group) ==
    IF group = InvalidUtf8 THEN Replacement
    ELSE IF group = OddNibble THEN ControlChar
    ELSE group

\* a decoder that keeps the zero bytes
decodeAncillaryData_KeepZeros(hexData) ==
    IF hexData = <<>> \/ hexData = <<HexPrefix>> THEN <<>>
    ELSE LET hex == IF Head(hexData) = HexPrefix THEN Tail(hexData) ELSE hexData
             bytes == SelectSeq(hex, LAMBDA group : group \notin {InvalidHex, HexPrefix})
         IN  [i \in 1..Len(bytes) |-> DecodeGroup(bytes[i])]
\* decodeAncillaryData(hexData): drop the prefix, drop the zero bytes, decode
decodeAncillaryData(hexData) ==
    IF hexData = <<>> \/ hexData = <<HexPrefix>> THEN <<>>
    ELSE LET hex == IF Head(hexData) = HexPrefix THEN Tail(hexData) ELSE hexData
             bytes == SelectSeq(hex, IsPositiveByte)
         IN  [i \in 1..Len(bytes) |-> DecodeGroup(bytes[i])]

\* String.prototype.trim
RECURSIVE TrimLeft(_)
TrimLeft(text) ==
    IF text # <<>> /\ Head(text) = Blank THEN TrimLeft(Tail(text)) ELSE text
RECURSIVE TrimRight(_)
TrimRight(text) ==
    IF text # <<>> /\ text[Len(text)] = Blank THEN TrimRight(SubSeq(text, 1, Len(text) - 1))
    ELSE text
Trim(text) == TrimRight(TrimLeft(text))

\* the position after the blanks that start at position i
RECURSIVE SkipBlanks(_, _)
SkipBlanks(text, i) ==
    IF i <= Len(text) /\ text[i] = Blank THEN SkipBlanks(text, i + 1) ELSE i

\* the positions j of a comma followed at once by description:
TitleEnds_NoBlanks(text) ==
    {j \in 1..Len(text) :
        text[j] = Comma /\ j + 1 <= Len(text) /\ text[j + 1] = "description:"}
\* the positions j of a comma followed by \s*description:
TitleEnds(text) ==
    {j \in 1..Len(text) :
        /\ text[j] = Comma
        /\ SkipBlanks(text, j + 1) <= Len(text)
        /\ text[SkipBlanks(text, j + 1)] = "description:"}

Min(S) == CHOOSE x \in S : \A y \in S : x <= y

\* decodedText.match(/(?:q:\s*)?title:\s*(.+?),\s*description:/i): the capture
\* of the leftmost title: that has a piece and then such a comma after it
TitleMatch(text) ==
    LET starts == {i \in 1..Len(text) :
                      text[i] = "title:" /\ \E j \in TitleEnds(text) : j > i + 1}
    IN  IF starts = {} THEN <<>>
        ELSE LET i == Min(starts)
                 j == Min({k \in TitleEnds(text) : k > i + 1})
             IN  <<Trim(SubSeq(text, i + 1, j - 1))>>

\* the end of the run of pieces other than the comma that starts at i
RECURSIVE RunEnd(_, _)
RunEnd(text, i) ==
    IF i <= Len(text) /\ text[i] # Comma THEN RunEnd(text, i + 1) ELSE i - 1

\* decodedText.match(/<key>\s*([^,]+)/i): the capture at the leftmost key that
\* is followed by a piece other than the comma
FieldMatch(text, key) ==
    LET starts == {i \in 1..Len(text) :
                      text[i] = key /\ i < Len(text) /\ text[i + 1] # Comma}
    IN  IF starts = {} THEN <<>>
        ELSE LET i == Min(starts)
             IN  <<Trim(SubSeq(text, i + 1, RunEnd(text, i + 1)))>>

\* the description ended by whichever key comes first
Description_FirstKey(text) ==
    LET descs == {i \in 1..Len(text) : text[i] = "description:"}
    IN  IF descs = {} THEN <<>>
        ELSE LET afterDesc == SubSeq(text, Min(descs) + 1, Len(text))
                 nextFields == {i \in 1..Len(afterDesc) :
                                   afterDesc[i] \in {"market_id:", "res_data:", "p1:", "p2:", "p3:",
                                                     "initializer:"}}
             IN  IF nextFields # {} THEN Trim(SubSeq(afterDesc, 1, Min(nextFields) - 1))
                 ELSE Trim(afterDesc)
\* the description: from after description: to market_id:, else to the first
\* of res_data: p1: p2: p3: initializer: (with the blanks before it), else to
\* the end
Description(text) ==
    LET descs == {i \in 1..Len(text) : text[i] = "description:"}
    IN  IF descs = {} THEN <<>>
        ELSE LET afterDesc == SubSeq(text, Min(descs) + 1, Len(text))
                 marketIds == {i \in 1..Len(afterDesc) : afterDesc[i] = "market_id:"}
                 nextFields == {i \in 1..Len(afterDesc) :
                                   afterDesc[i] \in {"res_data:", "p1:", "p2:", "p3:", "initializer:"}}
             IN  IF marketIds # {} THEN Trim(SubSeq(afterDesc, 1, Min(marketIds) - 1))
                 ELSE IF nextFields # {} THEN Trim(SubSeq(afterDesc, 1, Min(nextFields) - 1))
                 ELSE Trim(afterDesc)

OptionalFields == <<"market_id", "res_data", "p1", "p2", "p3", "initializer">>
KeyOf(field) ==
    CASE field = "market_id" -> "market_id:" [] field = "res_data" -> "res_data:"
      [] field = "p1" -> "p1:" [] field = "p2" -> "p2:" [] field = "p3" -> "p3:"
      [] field = "initializer" -> "initializer:"

\* a parser that defaults every field to ''
parseAncillaryData_Defaults(decodedText) ==
    [f \in {"title", "description"} \cup {OptionalFields[k] : k \in 1..Len(OptionalFields)} |->
        IF decodedText = <<>> THEN <<>>
        ELSE IF f = "title"
             THEN (IF TitleMatch(decodedText) = <<>> THEN <<>> ELSE TitleMatch(decodedText)[1])
        ELSE IF f = "description" THEN Description(decodedText)
        ELSE IF FieldMatch(decodedText, KeyOf(f)) = <<>> THEN <<>>
        ELSE FieldMatch(decodedText, KeyOf(f))[1]]
\* parseAncillaryData(decodedText): title and description always ('' is <<>>),
\* every other field only when its pattern matched
parseAncillaryData(decodedText) ==
    LET present == {f \in {OptionalFields[k] : k \in 1..Len(OptionalFields)} :
                       decodedText # <<>> /\ FieldMatch(decodedText, KeyOf(f)) # <<>>}
    IN  [f \in {"title", "description"} \cup present |->
            IF decodedText = <<>> THEN <<>>
            ELSE IF f = "title"
                 THEN (IF TitleMatch(decodedText) = <<>> THEN <<>>
                       ELSE TitleMatch(decodedText)[1])
            ELSE IF f = "description" THEN Description(decodedText)
            ELSE FieldMatch(decodedText, KeyOf(f))[1]]

\* decodeAndParseAncillaryData(hexData)
decodeAndParseAncillaryData(hexData) == parseAncillaryData(decodeAncillaryData(hexData))

\* JSON.stringify(parsed) / JSON.parse(text) of a record of strings
JsonStringify(parsed) == <<"json", parsed>>
JsonParse(json) == json[2]

\* one iteration of the for loop of processTokenRegisteredEvents
StoreTokenRegistered(D, e) ==
    IF Truthy(e.conditionId)
    THEN insertTokenRegisteredEvent(D,
            [condition_id |-> e.conditionId, token0 |-> e.token0, token1 |-> e.token1,
             block_time |-> e.Time, transaction_hash |-> e.Hash])
    ELSE D

\* one iteration of the for loop of processOrderFilledEvents
StoreOrderFilled(D, e) ==
    IF Truthy(e.orderHash) /\ Truthy(e.maker) /\ Truthy(e.taker)
       /\ Truthy(e.makerAssetId) /\ Truthy(e.takerAssetId)
    THEN insertOrderFilledEvent(D,
            [order_hash |-> e.orderHash, maker |-> e.maker, taker |-> e.taker,
             maker_asset_id |-> e.makerAssetId, taker_asset_id |-> e.takerAssetId,
             maker_amount_filled |-> OrZero(e.makerAmountFilled),
             taker_amount_filled |-> OrZero(e.takerAmountFilled),
             block_time |-> e.Time, transaction_hash |-> e.Hash])
    ELSE D

\* one iteration of the for loop of processConditionPreparationEvents
StoreConditionPreparation(D, e) ==
    IF Truthy(e.conditionId) /\ Truthy(e.questionId)
    THEN insertConditionPreparationEvent(D,
            [condition_id |-> e.conditionId, question_id |-> e.questionId,
             outcome_slot_count |-> e.outcomeSlotCount,
             block_time |-> e.Time, transaction_hash |-> e.Hash])
    ELSE D

\* one iteration of the for loop of processQuestionInitializedEvents
StoreQuestionInitialized(D, e) ==
    IF Truthy(e.questionID)
    THEN insertQuestionInitializedEvent(D,
            [question_id |-> e.questionID, ancillary_data |-> e.ancillaryData,
             ancillary_data_decoded |->
                 IF e.ancillaryData # <<>>
                 THEN <<JsonStringify(decodeAndParseAncillaryData(e.ancillaryData))>>
                 ELSE <<>>,
             block_time |-> e.Time, transaction_hash |-> e.Hash])
    ELSE D

StoreEvent(kind, D, e) ==
    CASE kind = "TokenRegistered" -> StoreTokenRegistered(D, e)
      [] kind = "OrderFilled" -> StoreOrderFilled(D, e)
      [] kind = "ConditionPreparation" -> StoreConditionPreparation(D, e)
      [] kind = "QuestionInitialized" -> StoreQuestionInitialized(D, e)

\* the if around the insert of process<kind>Events
RequiredPresent(kind, e) ==
    CASE kind = "TokenRegistered" -> Truthy(e.conditionId)
      [] kind = "OrderFilled" -> /\ Truthy(e.orderHash) /\ Truthy(e.maker) /\ Truthy(e.taker)
                                 /\ Truthy(e.makerAssetId) /\ Truthy(e.takerAssetId)
      [] kind = "ConditionPreparation" -> Truthy(e.conditionId) /\ Truthy(e.questionId)
      [] kind = "QuestionInitialized" -> Truthy(e.questionID)

\* event.Transaction (or event.Block) is missing: building the row from
\* event.Block.Time, event.Block.Number, event.Transaction.Hash throws
StoreThrows(kind, e) == RequiredPresent(kind, e) /\ e.Hash = NULL

\* try { for (const event of events) { ... } } catch (error) { return 0; }
\* an exception leaves the loop: the events after it are not examined
RECURSIVE ProcessEvents(_, _, _)
ProcessEvents(kind, D, events) ==
    IF events = <<>> THEN D
    ELSE IF StoreThrows(kind, Head(events)) THEN D
         ELSE ProcessEvents(kind, StoreEvent(kind, D, Head(events)), Tail(events))

----------------------------------------------------------------------------
(* What the EventSource may answer: raw events with their named arguments   *)
(* (NULL: the argument is absent), block time and transaction hash          *)

\* "title: Will X happen?, description: Test, market_id: M1, p1: No, p2: Yes"
ScenarioText ==
    <<"title:", Blank, "Will X happen?", Comma, Blank, "description:", Blank, "Test", Comma,
      Blank, "market_id:", Blank, "M1", Comma, Blank, "p1:", Blank, "No", Comma, Blank,
      "p2:", Blank, "Yes">>

\* the ancillaryData argument carrying a text: 0x, its bytes, zero padding
HexOf(text) == <<HexPrefix>> \o text \o <<ZeroByte>>

TokenRegisteredEvents ==
    {[conditionId |-> "C1", token0 |-> "100", token1 |-> "200", Time |-> 1, Hash |-> "T1"],
     [conditionId |-> "C1", token0 |-> "100", token1 |-> "200", Time |-> 2, Hash |-> "T2"],
     [conditionId |-> "C1", token0 |-> "300", token1 |-> NULL, Time |-> 1, Hash |-> "T1"],
     [conditionId |-> NULL, token0 |-> "100", token1 |-> "200", Time |-> 1, Hash |-> "T1"]}

OrderFilledEvents ==
    {[orderHash |-> "H1", maker |-> "A", taker |-> "B", makerAssetId |-> "0",
      takerAssetId |-> "200", makerAmountFilled |-> "400000",
      takerAmountFilled |-> "1000000", Time |-> 1, Hash |-> "T1"],
     [orderHash |-> "H1", maker |-> "A", taker |-> "B", makerAssetId |-> "200",
      takerAssetId |-> "0", makerAmountFilled |-> NULL,
      takerAmountFilled |-> "550000", Time |-> 2, Hash |-> "T2"],
     [orderHash |-> "H2", maker |-> NULL, taker |-> "A", makerAssetId |-> "0",
      takerAssetId |-> "200", makerAmountFilled |-> "550000",
      takerAmountFilled |-> "1000000", Time |-> 2, Hash |-> "T2"]}

ConditionPreparationEvents ==
    {[conditionId |-> "C1", questionId |-> "Q1", outcomeSlotCount |-> "2", Time |-> 1, Hash |-> "T1"],
     [conditionId |-> "C1", questionId |-> "Q2", outcomeSlotCount |-> NULL, Time |-> 2, Hash |-> "T2"],
     [conditionId |-> "C2", questionId |-> NULL, outcomeSlotCount |-> "2", Time |-> 2, Hash |-> "T2"]}

QuestionInitializedEvents ==
    {[questionID |-> "Q1", ancillaryData |-> HexOf(ScenarioText), Time |-> 1, Hash |-> "T1"],
     [questionID |-> "Q1", ancillaryData |-> <<>>, Time |-> 2, Hash |-> "T2"],
     [questionID |-> NULL, ancillaryData |-> HexOf(ScenarioText), Time |-> 1, Hash |-> "T1"]}

IngestionKinds == {"TokenRegistered", "OrderFilled", "ConditionPreparation", "QuestionInitialized"}

RawEvents(kind) ==
    CASE kind = "TokenRegistered" -> TokenRegisteredEvents
      [] kind = "OrderFilled" -> OrderFilledEvents
      [] kind = "ConditionPreparation" -> ConditionPreparationEvents
      [] kind = "QuestionInitialized" -> QuestionInitializedEvents

\* the responses of fetch<kind>Events: lists of at most MaxBatch events
Batches(kind) == UNION {[1..n -> RawEvents(kind)] : n \in 0..MaxBatch}

----------------------------------------------------------------------------
(* startPolling, runInitialSync, the cron triggers, the jobs, clear-and-sync *)

\* parents before children
InitialSyncOrder_Dependency ==
    <<"QuestionInitialized", "ConditionPreparation", "TokenRegistered", "OrderFilled">>
\* the order in which runInitialSync calls enqueueQuery
InitialSyncOrder ==
    <<"TokenRegistered", "OrderFilled", "ConditionPreparation", "QuestionInitialized">>

RECURSIVE EnqueueAll(_, _, _)
EnqueueAll(S, firstId, kinds) ==
    IF kinds = <<>> THEN S
    ELSE EnqueueAll(EnqueueQuery(S, firstId, 3, INITIAL_BACKOFF_MS, Head(kinds)),
                    firstId + 1, Tail(kinds))

\* runInitialSync() called when the store holds D, up to await Promise.all(promises)
RunInitialSync(D) ==
    IF areAllTablesFilled(D)
    THEN UNCHANGED <<schedVars, isInitialSyncInProgress, initialSyncStartTime, syncPending>>
    ELSE LET n == Len(jobs)
             new == [i \in 1..Len(InitialSyncOrder) |->
                       NewJob(InitialSyncOrder[i], 3, INITIAL_BACKOFF_MS, "sync")]
             ids == (n + 1)..(n + Len(InitialSyncOrder))
         IN  /\ isInitialSyncInProgress' = TRUE
             /\ initialSyncStartTime' = <<"Date.now()">>
             /\ syncPending' = ids
             /\ SetSched(EnqueueAll(SchedState, n + 1, InitialSyncOrder))
             /\ jobs' = jobs \o new
             /\ sleeps' = sleeps @@ [i \in ids |-> <<>>]
             /\ outcome' = outcome @@ [i \in ids |-> "pending"]
             /\ UNCHANGED lastFetch

\* the four cron.schedule calls of startPolling, in the order of the code
CronOrder == <<"TokenRegistered", "OrderFilled", "ConditionPreparation", "QuestionInitialized">>

\* a startPolling that does not look at isPolling
StartPollingFrom_Unguarded(D) ==
    /\ isPolling' = TRUE
    /\ RunInitialSync(D)
    /\ cronTasks' = cronTasks \o CronOrder
\* startPolling() called when the store holds D
StartPollingFrom(D) ==
    IF isPolling
    THEN UNCHANGED <<schedVars, pollVars>>
    ELSE /\ isPolling' = TRUE
         /\ RunInitialSync(D)
         /\ cronTasks' = cronTasks \o CronOrder

\* lib/init.ts, api/init: startPolling()
StartPolling ==
    /\ StartPollingFrom(DbState)
    /\ UNCHANGED <<storeVars, pureVars>>

\* cron.schedule('0 * * * *', () => enqueueQuery(() => process<kind>Events(), ...))
CronTick(kind) ==
    /\ \E i \in 1..Len(cronTasks) : cronTasks[i] = kind
    /\ Len(jobs) < MaxPollJobs
    /\ LET id == Len(jobs) + 1
       IN  /\ SetSched(EnqueueQuery(SchedState, id, 3, INITIAL_BACKOFF_MS, kind))
           /\ jobs' = Append(jobs, NewJob(kind, 3, INITIAL_BACKOFF_MS, "cron"))
           /\ sleeps' = sleeps @@ (id :> <<>>)
           /\ outcome' = outcome @@ (id :> "pending")
    /\ UNCHANGED <<lastFetch, pollVars, storeVars, pureVars>>

\* a runInitialSync that waits for the first of its promises only
JobReturns_Race(l) ==
    LET j == loops[l].cur.fn
    IN  /\ SetSched(WhileLoop(SchedState, l))
        /\ outcome' = [outcome EXCEPT ![j] = "done"]
        /\ syncPending' = syncPending \ {j}
        /\ isInitialSyncInProgress' = IF j \in syncPending THEN FALSE ELSE isInitialSyncInProgress
        /\ initialSyncStartTime' = IF j \in syncPending THEN <<>> ELSE initialSyncStartTime
        /\ UNCHANGED <<jobs, sleeps, isPolling, cronTasks>>
\* the job's fn() returns (process<kind>Events never rejects): an initial-sync
\* job resolves its promise, and the drain loop goes on
JobReturns(l) ==
    LET j == loops[l].cur.fn
    IN  /\ SetSched(WhileLoop(SchedState, l))
        /\ outcome' = [outcome EXCEPT ![j] = "done"]
        /\ syncPending' = syncPending \ {j}
        /\ isInitialSyncInProgress' =
              IF j \in syncPending /\ syncPending = {j} THEN FALSE
              ELSE isInitialSyncInProgress
        /\ initialSyncStartTime' =
              IF j \in syncPending /\ syncPending = {j} THEN <<>>
              ELSE initialSyncStartTime
        /\ UNCHANGED <<jobs, sleeps, isPolling, cronTasks>>

\* await fetch<kind>Events() answers: every event is examined and stored
FetchReturns(l, events) ==
    /\ loops[l].pc = "awaitFn"
    /\ jobs[loops[l].cur.fn].kind \in IngestionKinds
    /\ SetDb(ProcessEvents(jobs[loops[l].cur.fn].kind, DbState, events))
    /\ JobReturns(l)
    /\ lastFetch' = [fn |-> loops[l].cur.fn, failed |-> FALSE, cause |-> "none"]
    /\ UNCHANGED <<resets, pureVars>>

\* why a fetch throws: getClient() has no credential to use, the EventSource
\* refuses the credential it is sent, or the request fails on the way
FailureCauses == {"credentialMissing", "credentialMalformed", "request"}

\* a job that lets the error of its fetch reach processQueue
FetchFails_Rethrow(l, cause) ==
    /\ loops[l].pc = "awaitFn"
    /\ jobs[loops[l].cur.fn].kind \in IngestionKinds
    /\ lastFetch' = [fn |-> loops[l].cur.fn, failed |-> TRUE, cause |-> cause]
    /\ loops' = [loops EXCEPT ![l].pc = "sleep"]
    /\ sleeps' = [sleeps EXCEPT ![loops[l].cur.fn] = Append(@, loops[l].cur.backoffMs)]
    /\ UNCHANGED <<queryQueue, isProcessingQueue, jobs, attempts, outcome, pollVars,
                   storeVars, pureVars>>
\* a catch block that drops what the store holds
FetchFails_Clearing(l, cause) ==
    /\ loops[l].pc = "awaitFn"
    /\ jobs[loops[l].cur.fn].kind \in IngestionKinds
    /\ lastFetch' = [fn |-> loops[l].cur.fn, failed |-> TRUE, cause |-> cause]
    /\ JobReturns(l)
    /\ lastInserts' = {}
    /\ tables' = ClearTables(DbState).tables
    /\ UNCHANGED <<sqlite_sequence, resets, pureVars>>
\* await fetch<kind>Events() throws, because getClient() finds no credential
\* or because client.request() rejects (a credential the EventSource refuses,
\* a network error): catch (error) { console.error(...); return 0; }
FetchFails(l, cause) ==
    /\ loops[l].pc = "awaitFn"
    /\ jobs[loops[l].cur.fn].kind \in IngestionKinds
    /\ lastFetch' = [fn |-> loops[l].cur.fn, failed |-> TRUE, cause |-> cause]
    /\ JobReturns(l)
    /\ lastInserts' = {}
    /\ UNCHANGED <<tables, sqlite_sequence, resets, pureVars>>

\* api/clear-and-sync: clearAndSync()
ClearAndSync ==
    /\ resets < MaxResets
    /\ SetDb(ClearTables(DbState))
    /\ resets' = resets + 1
    /\ StartPollingFrom(ClearTables(DbState))
    /\ UNCHANGED pureVars

Next ==
    \/ StartPolling
    \/ \E kind \in IngestionKinds : CronTick(kind)
    \/ \E l \in LoopIds :
          /\ loops[l].pc = "awaitFn"
          /\ \E events \in Batches(jobs[loops[l].cur.fn].kind) : FetchReturns(l, events)
    \/ \E l \in LoopIds : FetchFails(l, "request")
    \/ ClearAndSync

Spec == Init /\ [][Next]_vars

----------------------------------------------------------------------------
(* Claims about the scheduler                                              *)

JobIds == 1..Len(jobs)
ActiveLoops == {l \in LoopIds : loops[l].pc # "none"}
RunningLoops == {l \in LoopIds : loops[l].pc = "awaitFn"}
InQueue(j) == \E i \in 1..Len(queryQueue) : queryQueue[i].fn = j
InHand(j) == \E l \in ActiveLoops : loops[l].cur.fn = j

C1_AtMostOne ==
    /\ Cardinality(ActiveLoops) <= 1
    /\ Cardinality(RunningLoops) <= 1

C1_EnqueueOnlyAppends ==
    (Len(jobs') = Len(jobs) + 1 /\ ActiveLoops # {}) =>
        /\ loops' = loops
        /\ Len(queryQueue') = Len(queryQueue) + 1
        /\ SubSeq(queryQueue', 1, Len(queryQueue)) = queryQueue
        /\ queryQueue'[Len(queryQueue')].fn = Len(jobs')

\* C1: at most one drain loop is active and at most one job attempt is in
\* progress in every reachable state, and an enqueue that arrives while a drain
\* is active (job awaiting, or backoff sleep) only appends to the queue and
\* leaves the drain loops as they are.
C1_SingleDrain == [](C1_AtMostOne) /\ [][C1_EnqueueOnlyAppends]_vars

\* a job was enqueued during a backoff sleep and one during a running attempt,
\* and both are waiting behind the drain loop
C1_Witness ==
    /\ \E j \in JobIds : jobs[j].during = "sleep" /\ InQueue(j)
    /\ \E j \in JobIds : jobs[j].during = "awaitFn" /\ InQueue(j)
    /\ Cardinality(ActiveLoops) = 1

\* C2: for jobs A enqueued before B, no attempt of B starts before A's final
\* attempt has ended (A done, or dropped after its retries), also when B was
\* enqueued while the scheduler slept for A's backoff.
C2_FifoWithHeadRetry ==
    \A a \in JobIds : \A b \in JobIds :
        (a < b /\ attempts[b] > 0) => outcome[a] # "pending"

\* job 1 failed at least once, a younger job arrived during its backoff sleep
\* and that younger job has been attempted
C2_Witness ==
    \E b \in JobIds :
        /\ b > 1
        /\ jobs[b].during = "sleep"
        /\ attempts[b] > 0
        /\ Len(sleeps[1]) >= 1
        /\ outcome[1] = "done"

RECURSIVE Pow2(_)
Pow2(n) == IF n = 0 THEN 1 ELSE 2 * Pow2(n - 1)

\* b, 2b, 4b, ... (n delays)
BackoffSequence(b, n) == [i \in 1..n |-> b * Pow2(i - 1)]

\* C3: a job that fails on every attempt is attempted exactly maxRetries+1
\* times, the sleeps before its retries are b, 2b, 4b, ..., and once dropped it
\* is neither in the queue nor in hand; no job is ever attempted more than
\* maxRetries+1 times.
C3_RetryBound ==
    \A j \in JobIds :
        /\ attempts[j] <= jobs[j].maxRetries + 1
        /\ sleeps[j] = BackoffSequence(jobs[j].backoffMs, Len(sleeps[j]))
        /\ outcome[j] = "dropped" =>
              /\ attempts[j] = jobs[j].maxRetries + 1
              /\ Len(sleeps[j]) = jobs[j].maxRetries
              /\ ~InQueue(j)
              /\ ~InHand(j)

\* a job with at least two retries was dropped, and a job with maxRetries = 0 too
C3_Witness ==
    /\ \E j \in JobIds : outcome[j] = "dropped" /\ jobs[j].maxRetries >= 2
    /\ \E j \in JobIds : outcome[j] = "dropped" /\ jobs[j].maxRetries = 0

\* C34: whenever the queue holds an entry the processing flag is set and a
\* drain loop is active, the flag is set exactly while a drain loop is active,
\* and a step that clears the flag ends with the queue empty
C34_NoLostWakeup ==
    /\ [](/\ Len(queryQueue) > 0 => (isProcessingQueue /\ ActiveLoops # {})
          /\ isProcessingQueue <=> ActiveLoops # {})
    /\ [][(isProcessingQueue /\ ~isProcessingQueue') => queryQueue' = <<>>]_vars

\* a job enqueued while the drain loop ran the last job of the queue is
\* waiting with the flag set, and a job enqueued during a backoff sleep has
\* been taken by the loop
C34_Witness ==
    /\ \E j \in JobIds : jobs[j].during = "awaitFn" /\ InQueue(j) /\ Len(queryQueue) = 1
    /\ \E j \in JobIds : jobs[j].during = "sleep" /\ attempts[j] > 0

\* C35: every enqueued job is eventually attempted, also behind a job that
\* was dropped after its retries, and once the enqueues have stopped the queue
\* is empty and the processing flag cleared for good
C35_EveryJobRuns ==
    /\ \A j \in 1..MaxJobs : (j \in JobIds) ~> (j \in JobIds /\ attempts[j] > 0)
    /\ \A j \in 1..MaxJobs :
          (j \in JobIds /\ \E a \in 1..(j - 1) : outcome[a] = "dropped")
              ~> (j \in JobIds /\ outcome[j] # "pending")
    /\ <>[](queryQueue = <<>> /\ ~isProcessingQueue /\ ActiveLoops = {})

\* a job enqueued with three retries was dropped, a job enqueued behind it
\* during its last backoff sleep has run, and the scheduler is idle
C35_Witness ==
    /\ \E a \in JobIds : \E b \in JobIds :
          /\ a < b
          /\ outcome[a] = "dropped"
          /\ jobs[a].maxRetries = DEFAULT_MAX_RETRIES
          /\ jobs[b].during = "sleep"
          /\ outcome[b] = "done"
    /\ queryQueue = <<>>
    /\ ~isProcessingQueue

\* the entries the scheduler holds: those of the queue, and the one a drain
\* loop has taken from the queue
HeldEntries ==
    {queryQueue[i] : i \in 1..Len(queryQueue)} \cup {loops[l].cur : l \in ActiveLoops}

\* C39: every entry of the scheduler has 0 <= retries <= maxRetries and
\* backoffMs = initialBackoff * 2^retries, and carries the job procedure,
\* maxRetries and name it was enqueued with, its retries counting the sleeps
\* made for it
C39_EntryShape ==
    \A q \in HeldEntries :
        /\ q.fn \in JobIds
        /\ q.retries \in 0..q.maxRetries
        /\ q.backoffMs = jobs[q.fn].backoffMs * Pow2(q.retries)
        /\ q.maxRetries = jobs[q.fn].maxRetries
        /\ q.name = jobs[q.fn].kind
        /\ q.retries \in {Len(sleeps[q.fn]), Len(sleeps[q.fn]) - 1}
        /\ q.retries = Len(sleeps[q.fn]) - 1 =>
              \E l \in LoopIds : loops[l].pc = "sleep" /\ loops[l].cur = q

\* an entry re-queued for its last retry is in hand while a fresh entry waits
C39_Witness ==
    /\ \E l \in ActiveLoops :
          /\ loops[l].cur.retries = DEFAULT_MAX_RETRIES
          /\ loops[l].cur.maxRetries = DEFAULT_MAX_RETRIES
          /\ loops[l].cur.backoffMs = INITIAL_BACKOFF_MS * Pow2(DEFAULT_MAX_RETRIES)
    /\ Len(queryQueue) > 0

----------------------------------------------------------------------------
(* Claims about the ingestion jobs and the event store                     *)

\* C4: when the EventSource call of an ingestion job has failed, the scheduler
\* has a failed attempt of that job in hand: it sleeps for the job's backoff
\* before re-queueing it, or it has dropped the job after maxRetries+1 attempts.
C4_FetchFailureReachesScheduler ==
    lastFetch.failed =>
        \/ \E l \in LoopIds : loops[l].pc = "sleep" /\ loops[l].cur.fn = lastFetch.fn
        \/ /\ outcome[lastFetch.fn] = "dropped"
           /\ attempts[lastFetch.fn] = jobs[lastFetch.fn].maxRetries + 1

RowsFor(t, r) == {i \in 1..Len(tables[t]) : UniqueKey(t, tables[t][i]) = UniqueKey(t, r)}

C5_OneRow ==
    \A t \in TableNames : \A i \in 1..Len(tables[t]) :
        Cardinality(RowsFor(t, tables[t][i])) = 1

C5_Redelivery ==
    (outcome' # outcome /\ lastInserts' = {"same"}) =>
        (tables' = tables /\ sqlite_sequence' = sqlite_sequence)

\* C5: for each event kind, a job run that only inserts events that are stored
\* already (same key, same fields) changes no table, so every row count stays
\* as it was after the first insert, and the store holds exactly one row for
\* each stored event.
C5_Idempotent == [](C5_OneRow) /\ [][C5_Redelivery]_vars

\* a job has just delivered a stored event a second time
C5_Witness ==
    /\ lastInserts = {"same"}
    /\ \E t \in TableNames : Len(tables[t]) >= 1

\* C6: no table holds two rows with the same natural key (question_id,
\* condition_id, condition_id of the token pair, order_hash).
C6_NaturalKeyUnique ==
    \A t \in TableNames : \A i \in 1..Len(tables[t]) : \A k \in 1..Len(tables[t]) :
        NaturalKey(t, tables[t][i]) = NaturalKey(t, tables[t][k]) => i = k

IsPrefix(s, t) == Len(s) <= Len(t) /\ SubSeq(t, 1, Len(s)) = s

\* C7: a step that is not a full reset leaves every stored row in place and
\* exactly as first written, also when an event with the key of a stored row
\* but other field values is inserted; only the full reset removes rows.
C7_AppendOnly ==
    [][resets' = resets => \A t \in TableNames : IsPrefix(tables[t], tables'[t])]_vars

\* a job has just inserted an event that has the unique key of a stored row and
\* other field values
C7_Witness ==
    /\ "conflict" \in lastInserts
    /\ \E t \in TableNames : Len(tables[t]) >= 1

----------------------------------------------------------------------------
(* The trade matcher: filterTradesByTokens (lib/db.ts) and                 *)
(* doesTradeMatchTokens (api/markets/route.ts)                             *)

ZERO_ADDRESS == "0x0000000000000000000000000000000000000000"

\* String.prototype.toLowerCase on the identifiers used here
ToLowerCase(x) ==
    CASE x = "0X0" -> "0x0"
      [] x = "0xAB" -> "0xab"
      [] x = "No" -> "no"
      [] x \in {"Yes", "YES"} -> "yes"
      [] x = "Maybe" -> "maybe"
      [] OTHER -> x

\* new Set(['0', '0x0', '0x0000000000000000000000000000000000000000'])
usdcRepresentations == {"0", "0x0", ZERO_ADDRESS}

\* tokens.forEach(t => { if (t.token0) tokenSet.add(t.token0.toLowerCase()); ... })
TokenSetOf(tokens) ==
    UNION {{ToLowerCase(x) : x \in {y \in {tokens[i].token0, tokens[i].token1} : Truthy(y)}}
           : i \in 1..Len(tokens)}

\* a wildcard that ignores the market's tokens
HasUSDCToken_Always(tokenSet) == TRUE
\* Array.from(tokenSet).some(token => usdcRepresentations.has(token))
HasUSDCToken(tokenSet) == \E token \in tokenSet : token \in usdcRepresentations

\* x ? String(x).toLowerCase() : null
Normalized(x) == IF Truthy(x) THEN ToLowerCase(x) ELSE NULL

\* makerMatch / takerMatch of filterTradesByTokens
SideMatches(assetId, tokenSet) ==
    /\ assetId # NULL
    /\ \/ assetId \in tokenSet
       \/ (assetId \in usdcRepresentations /\ HasUSDCToken(tokenSet))

\* trades.filter(trade => makerMatch || takerMatch)
filterTradesByTokens(trades, tokens) ==
    LET tokenSet == TokenSetOf(tokens)
    IN  SelectSeq(trades, LAMBDA trade :
            \/ SideMatches(Normalized(trade.maker_asset_id), tokenSet)
            \/ SideMatches(Normalized(trade.taker_asset_id), tokenSet))

\* "maker or taker is quote currency" without looking at the market's tokens
RouteSideMatches_Naive(side, normalizedToken0, normalizedToken1) ==
    /\ side # NULL
    /\ \/ side = normalizedToken0
       \/ side = normalizedToken1
       \/ side \in usdcRepresentations
\* makerMatch / takerMatch of doesTradeMatchTokens
RouteSideMatches(side, normalizedToken0, normalizedToken1) ==
    /\ side # NULL
    /\ \/ side = normalizedToken0
       \/ side = normalizedToken1
       \/ /\ side \in usdcRepresentations
          /\ \/ (normalizedToken0 # NULL /\ normalizedToken0 \in usdcRepresentations)
             \/ (normalizedToken1 # NULL /\ normalizedToken1 \in usdcRepresentations)

doesTradeMatchTokens(trade, token0, token1) ==
    IF ~Truthy(token0) /\ ~Truthy(token1) THEN FALSE
    ELSE \/ RouteSideMatches(Normalized(trade.maker_asset_id), Normalized(token0), Normalized(token1))
         \/ RouteSideMatches(Normalized(trade.taker_asset_id), Normalized(token0), Normalized(token1))

\* asset ids of stored trades (NOT NULL, and non-empty by the jobs' checks)
AssetIds == {"0", "0x0", "0X0", ZERO_ADDRESS, "555", "777", "999", "0xAB", "0xab"}
\* token0 / token1 of a stored token row (nullable)
TokenIds == AssetIds \cup {NULL}

MatchInit ==
    /\ SystemIdle
    /\ m_trade \in [maker_asset_id : AssetIds, taker_asset_id : AssetIds]
    /\ m_tokens \in [token0 : TokenIds, token1 : TokenIds]
    /\ m_result = [db |-> <<>>, route |-> <<>>]
    /\ p_trades = <<>>
    /\ p_tokenId = NULL
    /\ p_result = <<>>
    /\ p_labels = [p1 |-> "", p2 |-> ""]
    /\ p_market = <<>>
    /\ r_details = <<>>
    /\ r_list = <<>>
    /\ refresh = IdleRefresh
    /\ lastBatch = <<>>
    /\ delivered = {}
    /\ DecodeIdle
    /\ holders = IdleHolders

\* filterTradesByTokens([trade], [{token0, token1}])
RunFilter ==
    /\ m_result.db = <<>>
    /\ m_result' = [m_result EXCEPT
                      !.db = <<filterTradesByTokens(<<m_trade>>, <<m_tokens>>) = <<m_trade>>>>]
    /\ UNCHANGED <<schedVars, pollVars, decodeVars, holders, storeVars, m_trade, m_tokens, priceVars, readVars>>

\* doesTradeMatchTokens(trade, market.token0, market.token1)
RunRouteMatch ==
    /\ m_result.route = <<>>
    /\ m_result' = [m_result EXCEPT
                      !.route = <<doesTradeMatchTokens(m_trade, m_tokens.token0, m_tokens.token1)>>]
    /\ UNCHANGED <<schedVars, pollVars, decodeVars, holders, storeVars, m_trade, m_tokens, priceVars, readVars>>

MatchNext == RunFilter \/ RunRouteMatch

SpecMatch == MatchInit /\ [][MatchNext]_vars

----------------------------------------------------------------------------
(* Claims about the trade matcher                                          *)

InClass(x) == x # NULL /\ ToLowerCase(x) \in usdcRepresentations

SideBelongs(assetId, tokens) ==
    \/ (tokens.token0 # NULL /\ ToLowerCase(assetId) = ToLowerCase(tokens.token0))
    \/ (tokens.token1 # NULL /\ ToLowerCase(assetId) = ToLowerCase(tokens.token1))
    \/ (InClass(assetId) /\ (InClass(tokens.token0) \/ InClass(tokens.token1)))

Belongs(trade, tokens) ==
    SideBelongs(trade.maker_asset_id, tokens) \/ SideBelongs(trade.taker_asset_id, tokens)

\* C8: both matchers answer true exactly when the maker or the taker asset id
\* equals token0 or token1 (ignoring case), or is in the quote-currency class
\* while token0 or token1 is in that class too.
C8_MatchRule ==
    /\ m_result.db # <<>> => m_result.db = <<Belongs(m_trade, m_tokens)>>
    /\ m_result.route # <<>> => m_result.route = <<Belongs(m_trade, m_tokens)>>

\* market 555/777: quote currency against the foreign token 999 was examined
\* by both matchers and does not match
C8_Witness ==
    /\ m_tokens = [token0 |-> "555", token1 |-> "777"]
    /\ m_trade = [maker_asset_id |-> "0", taker_asset_id |-> "999"]
    /\ m_result = [db |-> <<FALSE>>, route |-> <<FALSE>>]

\* market 555/777: quote currency against token0 matches
C8_WitnessMatch ==
    /\ m_tokens = [token0 |-> "555", token1 |-> "777"]
    /\ m_trade = [maker_asset_id |-> "0", taker_asset_id |-> "555"]
    /\ m_result = [db |-> <<TRUE>>, route |-> <<TRUE>>]

BothQuote(trade) == InClass(trade.maker_asset_id) /\ InClass(trade.taker_asset_id)

----------------------------------------------------------------------------
(* The price calculator: calculateTokenPrice (lib/price-calculator.ts)     *)

\* a test that takes every asset id for the quote currency
isUSDC_Present(assetId) == Truthy(assetId)
\* isUSDC(assetId)
isUSDC(assetId) == Truthy(assetId) /\ ToLowerCase(assetId) \in usdcRepresentations

\* a parsed number is <<n>>; the result of parsing a non-number is NaN
NaN == <<>>

\* parseFloat on the amount strings used here
ParseFloat(x) ==
    CASE x = "0" -> <<0>>
      [] x = "400000" -> <<400000>>
      [] x = "550000" -> <<550000>>
      [] x = "1000000" -> <<1000000>>
      [] OTHER -> NaN

\* trades.filter(trade => (makerId === tokenId || takerId === tokenId) &&
\*                        (isUSDC(maker_asset_id) || isUSDC(taker_asset_id)))
RelevantTrades(trades, tokenId) ==
    SelectSeq(trades, LAMBDA trade :
        /\ \/ Normalized(trade.maker_asset_id) = Normalized(tokenId)
           \/ Normalized(trade.taker_asset_id) = Normalized(tokenId)
        /\ \/ isUSDC(trade.maker_asset_id)
           \/ isUSDC(trade.taker_asset_id))

\* insertion of one trade into a list sorted oldest first
RECURSIVE InsertAsc(_, _)
InsertAsc(sorted, trade) ==
    IF sorted = <<>> THEN <<trade>>
    ELSE IF Head(sorted).block_time <= trade.block_time
         THEN <<Head(sorted)>> \o InsertAsc(Tail(sorted), trade)
         ELSE <<trade>> \o sorted

\* insertion of one trade into a list sorted newest first, after its equals
RECURSIVE InsertDesc(_, _)
InsertDesc(sorted, trade) ==
    IF sorted = <<>> THEN <<trade>>
    ELSE IF Head(sorted).block_time >= trade.block_time
         THEN <<Head(sorted)>> \o InsertDesc(Tail(sorted), trade)
         ELSE <<trade>> \o sorted

\* [...relevantTrades].sort((a, b) => new Date(b.block_time) - new Date(a.block_time))
\* (Array.prototype.sort is stable)
RECURSIVE SortByTime_Ascending(_)
SortByTime_Ascending(trades) ==
    IF trades = <<>> THEN <<>>
    ELSE InsertAsc(SortByTime_Ascending(SubSeq(trades, 1, Len(trades) - 1)),
                   trades[Len(trades)])
RECURSIVE SortByTime(_)
SortByTime(trades) ==
    IF trades = <<>> THEN <<>>
    ELSE InsertDesc(SortByTime(SubSeq(trades, 1, Len(trades) - 1)), trades[Len(trades)])

\* a value that may be null: <<>> is null, <<v>> is the value v
Null == <<>>

\* the body of the for loop: the price of one trade as the fraction
\* quote amount / token amount (the two divisions by 1e6 cancel), or null
TradePrice(trade, tokenId) ==
    LET makerAmount == ParseFloat(trade.maker_amount_filled)
        takerAmount == ParseFloat(trade.taker_amount_filled)
        makerIsToken == ToLowerCase(trade.maker_asset_id) = ToLowerCase(tokenId)
        takerIsToken == ToLowerCase(trade.taker_asset_id) = ToLowerCase(tokenId)
    IN  IF makerAmount = NaN \/ takerAmount = NaN THEN Null
        ELSE IF makerAmount = <<0>> \/ takerAmount = <<0>> THEN Null
        ELSE IF isUSDC(trade.maker_asset_id) /\ takerIsToken
             THEN <<[quote |-> makerAmount[1], token |-> takerAmount[1]]>>
        ELSE IF isUSDC(trade.taker_asset_id) /\ makerIsToken
             THEN <<[quote |-> takerAmount[1], token |-> makerAmount[1]]>>
        ELSE Null

\* price > 0, for a quotient of two non-zero amounts
PositiveRatio(price) == (price.quote > 0) = (price.token > 0)

\* for (const trade of sortedTrades) { ... if (price !== null && price > 0) {
\* prices.push(price); if (!lastTradeTime) lastTradeTime = trade.block_time } }
RECURSIVE CollectPrices(_, _)
CollectPrices(sortedTrades, tokenId) ==
    IF sortedTrades = <<>> THEN <<>>
    ELSE LET price == TradePrice(Head(sortedTrades), tokenId)
             rest == CollectPrices(Tail(sortedTrades), tokenId)
         IN  IF price = Null \/ ~PositiveRatio(price[1]) THEN rest
             ELSE <<[price |-> price[1], time |-> Head(sortedTrades).block_time]>> \o rest

\* calculateTokenPrice(trades, tokenId): PriceInfo | null
calculateTokenPrice(trades, tokenId) ==
    LET relevantTrades == RelevantTrades(trades, tokenId)
        prices == CollectPrices(SortByTime(relevantTrades), tokenId)
    IN  IF relevantTrades = <<>> THEN Null
        ELSE IF prices = <<>> THEN Null
        ELSE <<[price |-> prices[1].price, lastTradeTime |-> prices[1].time]>>

\* the trades offered to the calculator: each side pairing with each pair of
\* amounts at each time
PriceSides == {<<"0", "200">>, <<"200", "0X0">>, <<"100", "200">>}
PriceAmounts == {<<"400000", "1000000">>, <<"550000", "1000000">>,
                 <<"0", "1000000">>, <<"1000000", "abc">>}
PriceTimes == {1, 2}

PriceTrades ==
    {[maker_asset_id |-> s[1], taker_asset_id |-> s[2],
      maker_amount_filled |-> a[1], taker_amount_filled |-> a[2], block_time |-> t]
     : s \in PriceSides, a \in PriceAmounts, t \in PriceTimes}

PriceInit ==
    /\ SystemIdle
    /\ m_trade = [maker_asset_id |-> NULL, taker_asset_id |-> NULL]
    /\ m_tokens = [token0 |-> NULL, token1 |-> NULL]
    /\ m_result = [db |-> <<>>, route |-> <<>>]
    /\ p_trades \in UNION {[1..n -> PriceTrades] : n \in 0..MaxTrades}
    /\ p_tokenId \in {"200", "100"}
    /\ p_result = <<>>
    /\ p_labels = [p1 |-> "", p2 |-> ""]
    /\ p_market = <<>>
    /\ r_details = <<>>
    /\ r_list = <<>>
    /\ refresh = IdleRefresh
    /\ lastBatch = <<>>
    /\ delivered = {}
    /\ DecodeIdle
    /\ holders = IdleHolders

\* calculateTokenPrice(trades, tokenId)
RunCalculateTokenPrice ==
    /\ p_result = <<>>
    /\ p_result' = <<calculateTokenPrice(p_trades, p_tokenId)>>
    /\ UNCHANGED <<schedVars, pollVars, decodeVars, holders, storeVars, matchVars, p_trades, p_tokenId, p_labels, p_market, readVars>>

PriceNext == RunCalculateTokenPrice

SpecPrice == PriceInit /\ [][PriceNext]_vars

----------------------------------------------------------------------------
(* Claims about the price calculator                                       *)

Numeric(x) == ParseFloat(x) # NaN

\* a candidate: one side is the token, the other side is quote currency
Candidate(trade, tokenId) ==
    \/ (isUSDC(trade.maker_asset_id) /\ ToLowerCase(trade.taker_asset_id) = ToLowerCase(tokenId))
    \/ (isUSDC(trade.taker_asset_id) /\ ToLowerCase(trade.maker_asset_id) = ToLowerCase(tokenId))

\* both amounts numeric and non-zero
ValidAmounts(trade) ==
    /\ Numeric(trade.maker_amount_filled) /\ ParseFloat(trade.maker_amount_filled) # <<0>>
    /\ Numeric(trade.taker_amount_filled) /\ ParseFloat(trade.taker_amount_filled) # <<0>>

ValidCandidates == {i \in 1..Len(p_trades) : Candidate(p_trades[i], p_tokenId) /\ ValidAmounts(p_trades[i])}

QuoteAmount(trade) ==
    IF isUSDC(trade.maker_asset_id) THEN ParseFloat(trade.maker_amount_filled)[1]
    ELSE ParseFloat(trade.taker_amount_filled)[1]

TokenAmount(trade) ==
    IF isUSDC(trade.maker_asset_id) THEN ParseFloat(trade.taker_amount_filled)[1]
    ELSE ParseFloat(trade.maker_amount_filled)[1]

TokenVersusQuote(trade, tokenId) ==
    LET makerIsToken == ToLowerCase(trade.maker_asset_id) = ToLowerCase(tokenId)
        takerIsToken == ToLowerCase(trade.taker_asset_id) = ToLowerCase(tokenId)
    IN  \/ (makerIsToken /\ ~takerIsToken /\ InClass(trade.taker_asset_id))
        \/ (takerIsToken /\ ~makerIsToken /\ InClass(trade.maker_asset_id))

TokenVersusToken(trade) == ~InClass(trade.maker_asset_id) /\ ~InClass(trade.taker_asset_id)

PricedTrades == SelectSeq(p_trades, LAMBDA trade : TokenVersusQuote(trade, p_tokenId))

\* C32: the price of an outcome token is the price computed from the trades
\* of the token against the quote-currency class alone, so taking the other
\* trades away (token against token among them) leaves it as it is, and a
\* reported price and time are those of one of these trades
C32_PriceFromQuoteTradesOnly ==
    p_result # <<>> =>
        /\ p_result[1] = calculateTokenPrice(PricedTrades, p_tokenId)
        /\ p_result[1] # Null =>
               \E i \in 1..Len(PricedTrades) :
                   LET trade == PricedTrades[i]
                       makerIsQuote == InClass(trade.maker_asset_id)
                   IN  /\ p_result[1][1].lastTradeTime = trade.block_time
                       /\ ValidAmounts(trade)
                       /\ p_result[1][1].price =
                              IF makerIsQuote
                              THEN [quote |-> ParseFloat(trade.maker_amount_filled)[1],
                                    token |-> ParseFloat(trade.taker_amount_filled)[1]]
                              ELSE [quote |-> ParseFloat(trade.taker_amount_filled)[1],
                                    token |-> ParseFloat(trade.maker_amount_filled)[1]]

\* a price was reported although a trade of the token against the market's
\* other token, with valid amounts, is later than the trade that set the price
C32_Witness ==
    /\ p_result # <<>>
    /\ p_result[1] # Null
    /\ \E i \in 1..Len(p_trades) :
          /\ TokenVersusToken(p_trades[i])
          /\ ToLowerCase(p_tokenId) \in {ToLowerCase(p_trades[i].maker_asset_id),
                                         ToLowerCase(p_trades[i].taker_asset_id)}
          /\ ValidAmounts(p_trades[i])
          /\ p_trades[i].block_time > p_result[1][1].lastTradeTime

----------------------------------------------------------------------------
(* The price calculator: calculateMarketPrices (lib/price-calculator.ts)   *)

\* const p1IsNo = p1 === '0' || p1.toLowerCase() === 'no'
P1IsNo(p1) == p1 = "0" \/ ToLowerCase(p1) = "no"

\* const p2IsYes = p2 === '1' || p2.toLowerCase() === 'yes'
P2IsYes(p2) == p2 = "1" \/ ToLowerCase(p2) = "yes"

\* token0 taken as the YES token whatever the labels are
Token0IsYes_Always(p1, p2) == TRUE
\* let token0IsYes = false; if (p1IsNo && p2IsYes) ... else if (!p1IsNo && p2IsYes) ...
Token0IsYes(p1, p2) ==
    IF P1IsNo(p1) /\ P2IsYes(p2) THEN FALSE
    ELSE IF ~P1IsNo(p1) /\ P2IsYes(p2) THEN (ToLowerCase(p1) = "yes" \/ p1 = "1")
    ELSE FALSE

\* calculateMarketPrices(trades, token0, token1, p1, p2)
calculateMarketPrices(trades, token0, token1, p1, p2) ==
    LET token0IsYes == Token0IsYes(p1, p2)
        yesTokenId == IF token0IsYes THEN token0 ELSE token1
        noTokenId == IF token0IsYes THEN token1 ELSE token0
    IN  [yesPrice |-> IF Truthy(yesTokenId) THEN calculateTokenPrice(trades, yesTokenId) ELSE Null,
         noPrice |-> IF Truthy(noTokenId) THEN calculateTokenPrice(trades, noTokenId) ELSE Null,
         token0IsYes |-> token0IsYes]

\* outcome labels as parsed from the ancillary text; '' when the label is absent
Labels == {"", "No", "Yes", "0", "1", "no", "YES", "Maybe"}

\* trades of the market 100/200: each token against quote currency, and the
\* two tokens against each other
MarketTrades ==
    {[maker_asset_id |-> "0", taker_asset_id |-> "200", maker_amount_filled |-> "400000",
      taker_amount_filled |-> "1000000", block_time |-> 1],
     [maker_asset_id |-> "200", taker_asset_id |-> "0", maker_amount_filled |-> "1000000",
      taker_amount_filled |-> "550000", block_time |-> 2],
     [maker_asset_id |-> "0", taker_asset_id |-> "100", maker_amount_filled |-> "550000",
      taker_amount_filled |-> "1000000", block_time |-> 1],
     [maker_asset_id |-> "100", taker_asset_id |-> "200", maker_amount_filled |-> "1000000",
      taker_amount_filled |-> "1000000", block_time |-> 2]}

MarketInit ==
    /\ SystemIdle
    /\ m_trade = [maker_asset_id |-> NULL, taker_asset_id |-> NULL]
    /\ m_tokens \in {[token0 |-> "100", token1 |-> "200"], [token0 |-> "100", token1 |-> NULL]}
    /\ m_result = [db |-> <<>>, route |-> <<>>]
    /\ p_trades \in UNION {[1..n -> MarketTrades] : n \in 0..MaxTrades}
    /\ p_tokenId = NULL
    /\ p_result = <<>>
    /\ p_labels \in [p1 : Labels, p2 : Labels]
    /\ p_market = <<>>
    /\ r_details = <<>>
    /\ r_list = <<>>
    /\ refresh = IdleRefresh
    /\ lastBatch = <<>>
    /\ delivered = {}
    /\ DecodeIdle
    /\ holders = IdleHolders

\* calculateMarketPrices(trades, token0, token1, p1, p2)
RunCalculateMarketPrices ==
    /\ p_market = <<>>
    /\ p_market' = <<calculateMarketPrices(p_trades, m_tokens.token0, m_tokens.token1,
                                           p_labels.p1, p_labels.p2)>>
    /\ UNCHANGED <<schedVars, pollVars, decodeVars, holders, storeVars, matchVars, p_trades, p_tokenId, p_result, p_labels, readVars>>

MarketNext == RunCalculateMarketPrices

SpecMarket == MarketInit /\ [][MarketNext]_vars

----------------------------------------------------------------------------
(* Claims about the YES/NO assignment                                      *)

LabelIsNo(x) == x = "0" \/ ToLowerCase(x) = "no"
LabelIsYes(x) == x = "1" \/ ToLowerCase(x) = "yes"

\* C11: with p1 = No and p2 = Yes token0 is the NO token; otherwise the token
\* whose label is "yes"/"1" is the YES token: token0 when p1 is the yes label
\* (and p2 is not), token1 when p2 is.
C11_LabelsDecideMapping ==
    p_market # <<>> =>
        /\ (LabelIsNo(p_labels.p1) /\ LabelIsYes(p_labels.p2)) => ~p_market[1].token0IsYes
        /\ (LabelIsYes(p_labels.p1) /\ ~LabelIsYes(p_labels.p2)) => p_market[1].token0IsYes
        /\ (~LabelIsYes(p_labels.p1) /\ LabelIsYes(p_labels.p2)) => ~p_market[1].token0IsYes

\* neither label is one of yes, 1, no, 0
NoReliableMapping ==
    /\ ~LabelIsYes(p_labels.p1) /\ ~LabelIsNo(p_labels.p1)
    /\ ~LabelIsYes(p_labels.p2) /\ ~LabelIsNo(p_labels.p2)

\* C12: when neither label is recognised the YES price and the NO price are
\* both null, whatever the trades are.
C12_NoMappingNoPrices ==
    (p_market # <<>> /\ NoReliableMapping) =>
        (p_market[1].yesPrice = Null /\ p_market[1].noPrice = Null)

HasValidCandidate(trades, tokenId) ==
    /\ Truthy(tokenId)
    /\ \E i \in 1..Len(trades) : Candidate(trades[i], tokenId) /\ ValidAmounts(trades[i])

\* C12 amended: when neither label is recognised the calculator takes token0
\* as the NO token and token1 as the YES token: the YES price is null exactly
\* when token1 has no valid candidate trade, the NO price exactly when token0
\* has none.
C12_DefaultMapping ==
    (p_market # <<>> /\ NoReliableMapping) =>
        /\ ~p_market[1].token0IsYes
        /\ (p_market[1].yesPrice = Null) = ~HasValidCandidate(p_trades, m_tokens.token1)
        /\ (p_market[1].noPrice = Null) = ~HasValidCandidate(p_trades, m_tokens.token0)

\* no label at all, a trade of token 200 against quote currency and none of
\* token 100: a YES price is reported
C12_Witness ==
    /\ p_labels = [p1 |-> "", p2 |-> ""]
    /\ m_tokens = [token0 |-> "100", token1 |-> "200"]
    /\ Len(p_trades) >= 1
    /\ p_market # <<>>
    /\ p_market[1].yesPrice # Null
    /\ p_market[1].noPrice = Null

----------------------------------------------------------------------------
(* The read side: getMarketDetails, getMarketsWithDataAndTrades (lib/db.ts) *)
(* and the routes GET /api/markets/[questionId], GET /api/markets           *)

RowsOf(D, t) == {D.tables[t][i] : i \in 1..Len(D.tables[t])}

\* a row of q.* extended with the joined condition columns
JoinCondition(q, condition_id, outcome_slot_count) ==
    [col \in DOMAIN q \cup {"condition_id", "outcome_slot_count"} |->
        IF col = "condition_id" THEN condition_id
        ELSE IF col = "outcome_slot_count" THEN outcome_slot_count
        ELSE q[col]]

\* the same query with INNER JOIN: questions without a condition are left out
MarketRows_Inner(D, questionId) ==
    {JoinCondition(qc[1], qc[2].condition_id, qc[2].outcome_slot_count) :
        qc \in {x \in RowsOf(D, "question_initialized_events")
                        \X RowsOf(D, "condition_preparation_events") :
                    x[1].question_id = questionId /\ x[2].question_id = questionId}}
\* SELECT q.*, c.condition_id, c.outcome_slot_count FROM question_initialized_events q
\* LEFT JOIN condition_preparation_events c ON q.question_id = c.question_id
\* WHERE q.question_id = ?        (.get() returns one of these rows)
MarketRows(D, questionId) ==
    LET conditions(q) == {c \in RowsOf(D, "condition_preparation_events") :
                             c.question_id = q.question_id}
    IN  UNION {IF conditions(q) = {}
               THEN {JoinCondition(q, NULL, NULL)}
               ELSE {JoinCondition(q, c.condition_id, c.outcome_slot_count) : c \in conditions(q)}
               : q \in {x \in RowsOf(D, "question_initialized_events") : x.question_id = questionId}}

\* SELECT * FROM token_registered_events WHERE condition_id = ?
TokenRowsOf(D, conditionId) ==
    SelectSeq(D.tables["token_registered_events"], LAMBDA t : t.condition_id = conditionId)

\* SELECT * FROM order_filled_events ORDER BY block_time DESC
AllTrades(D) == SortByTime(D.tables["order_filled_events"])

\* getMarketDetails(questionId), steps 2 to 5, for the market row found
getMarketDetails(D, market) ==
    IF ~Truthy(market.condition_id) THEN [market |-> market, trades |-> <<>>]
    ELSE LET tokens == TokenRowsOf(D, market.condition_id)
         IN  IF tokens = <<>> THEN [market |-> market, trades |-> <<>>]
             ELSE [market |-> market, trades |-> filterTradesByTokens(AllTrades(D), tokens)]

\* a word, or a text of several pieces, as one string
Str(text) ==
    IF text = <<>> THEN "" ELSE IF Len(text) = 1 THEN text[1] ELSE "<text>"

\* JSON.parse(ancillary_data_decoded || '{}'), then parsed.<label> || ''
LabelOf(ancillary_data_decoded, label) ==
    IF ancillary_data_decoded = <<>> THEN ""
    ELSE LET parsed == JsonParse(ancillary_data_decoded[1])
         IN  IF label \in DOMAIN parsed THEN Str(parsed[label]) ELSE ""

\* the body of GET /api/markets/[questionId] once getMarketDetails has answered:
\* tokenData is <<tokens[0]>>, or <<>> when there is no condition or no token row
MarketResponse(details, tokenData) ==
    LET token0 == IF tokenData = <<>> THEN NULL ELSE OrNull(tokenData[1].token0)
        token1 == IF tokenData = <<>> THEN NULL ELSE OrNull(tokenData[1].token1)
        prices == calculateMarketPrices(details.trades, token0, token1,
                      LabelOf(details.market.ancillary_data_decoded, "p1"),
                      LabelOf(details.market.ancillary_data_decoded, "p2"))
    IN  [status |-> 200, market |-> details.market, trades |-> details.trades,
         prices |-> [yes |-> prices.yesPrice, no |-> prices.noPrice]]

\* SELECT DISTINCT q.question_id, ..., c.condition_id, c.outcome_slot_count, t.token0, t.token1
\* FROM q INNER JOIN c ON q.question_id = c.question_id
\* LEFT JOIN t ON c.condition_id = t.condition_id WHERE q.ancillary_data_decoded IS NOT NULL ...
getMarketsWithDataAndTrades(D) ==
    LET tokenPairs(c) == {t \in RowsOf(D, "token_registered_events") : t.condition_id = c.condition_id}
        row(q, c, token0, token1) ==
            [question_id |-> q.question_id, ancillary_data_decoded |-> q.ancillary_data_decoded,
             question_time |-> q.block_time, condition_id |-> c.condition_id,
             outcome_slot_count |-> c.outcome_slot_count, token0 |-> token0, token1 |-> token1]
    IN  UNION {IF tokenPairs(qc[2]) = {}
               THEN {row(qc[1], qc[2], NULL, NULL)}
               ELSE {row(qc[1], qc[2], t.token0, t.token1) : t \in tokenPairs(qc[2])}
               : qc \in {x \in RowsOf(D, "question_initialized_events")
                                \X RowsOf(D, "condition_preparation_events") :
                            /\ x[1].question_id = x[2].question_id
                            /\ x[1].ancillary_data_decoded # <<>>}}

\* tradesByAssetId.get(token): the trades filed under the lower-cased asset id
TradesByAssetId(allTrades, token) ==
    IF ~Truthy(token) THEN <<>>
    ELSE SelectSeq(allTrades, LAMBDA trade :
            \/ Normalized(trade.maker_asset_id) = ToLowerCase(token)
            \/ Normalized(trade.taker_asset_id) = ToLowerCase(token))

\* [...trades0, ...trades1].forEach: first occurrence of each order_hash, kept
\* when doesTradeMatchTokens accepts it
RECURSIVE MatchingTrades(_, _, _, _)
MatchingTrades(candidates, tradeSet, token0, token1) ==
    IF candidates = <<>> THEN <<>>
    ELSE LET trade == Head(candidates)
             rest == MatchingTrades(Tail(candidates), tradeSet \cup {trade.order_hash},
                                    token0, token1)
         IN  IF trade.order_hash \notin tradeSet /\ doesTradeMatchTokens(trade, token0, token1)
             THEN <<trade>> \o rest
             ELSE rest

\* the .map() body of GET /api/markets for one row of getMarketsWithDataAndTrades
MarketEntry(D, market) ==
    LET allTrades == AllTrades(D)
        matchingTrades ==
            MatchingTrades(TradesByAssetId(allTrades, market.token0)
                               \o TradesByAssetId(allTrades, market.token1),
                           {}, market.token0, market.token1)
        prices == calculateMarketPrices(matchingTrades, market.token0, market.token1,
                      LabelOf(market.ancillary_data_decoded, "p1"),
                      LabelOf(market.ancillary_data_decoded, "p2"))
    IN  [question_id |-> market.question_id,
         ancillary_data_decoded |-> market.ancillary_data_decoded,
         question_time |-> market.question_time,
         condition_id |-> market.condition_id,
         outcome_slot_count |-> market.outcome_slot_count,
         token0 |-> market.token0, token1 |-> market.token1,
         trade_count |-> Len(matchingTrades),
         prices |-> [yes |-> prices.yesPrice, no |-> prices.noPrice]]

----------------------------------------------------------------------------
(* The read API over a store filled by the ingestion jobs in any order     *)

ReadQuestions ==
    {[questionID |-> "Q1", ancillaryData |-> HexOf(ScenarioText), Time |-> 1, Hash |-> "T1"],
     [questionID |-> "Q2", ancillaryData |-> <<>>, Time |-> 2, Hash |-> "T2"]}

ReadConditions ==
    {[conditionId |-> "C1", questionId |-> "Q1", outcomeSlotCount |-> "2", Time |-> 1, Hash |-> "T1"],
     [conditionId |-> "C2", questionId |-> "Q2", outcomeSlotCount |-> "2", Time |-> 2, Hash |-> "T2"]}

ReadTokens ==
    {[conditionId |-> "C1", token0 |-> "100", token1 |-> "200", Time |-> 1, Hash |-> "T1"]}

ReadTrades ==
    {[orderHash |-> "H1", maker |-> "A", taker |-> "B", makerAssetId |-> "0",
      takerAssetId |-> "200", makerAmountFilled |-> "400000",
      takerAmountFilled |-> "1000000", Time |-> 1, Hash |-> "T1"],
     [orderHash |-> "H2", maker |-> "B", taker |-> "A", makerAssetId |-> "200",
      takerAssetId |-> "0", makerAmountFilled |-> "1000000",
      takerAmountFilled |-> "550000", Time |-> 2, Hash |-> "T2"],
     [orderHash |-> "H3", maker |-> "A", taker |-> "B", makerAssetId |-> "100",
      takerAssetId |-> "200", makerAmountFilled |-> "1000000",
      takerAmountFilled |-> "1000000", Time |-> 3, Hash |-> "T3"]}

ReadEvents(kind) ==
    CASE kind = "TokenRegistered" -> ReadTokens
      [] kind = "OrderFilled" -> ReadTrades
      [] kind = "ConditionPreparation" -> ReadConditions
      [] kind = "QuestionInitialized" -> ReadQuestions

QuestionIds == {"Q1", "Q2", "Q9"}

ReadInit == SystemIdle /\ PureIdle

\* process<kind>Events() with the EventSource answering events
ReadIngest(kind, events) ==
    /\ LET D == ProcessEvents(kind, DbState, events)
       IN  tables' = D.tables /\ sqlite_sequence' = D.sqlite_sequence
    /\ r_details' = <<>>
    /\ r_list' = <<>>
    /\ UNCHANGED <<schedVars, pollVars, decodeVars, holders, lastInserts, resets, matchVars, priceVars, histVars, refresh>>

\* GET /api/markets/[questionId]
GetMarket(questionId) ==
    /\ IF MarketRows(DbState, questionId) = {}
       THEN r_details' = <<questionId, [status |-> 404]>>
       ELSE \E market \in MarketRows(DbState, questionId) :
               LET details == getMarketDetails(DbState, market)
                   tokens == IF Truthy(market.condition_id)
                             THEN TokenRowsOf(DbState, market.condition_id) ELSE <<>>
               IN  \E tokenData \in (IF tokens = <<>> THEN {<<>>}
                                     ELSE {<<tokens[i]>> : i \in 1..Len(tokens)}) :
                       r_details' = <<questionId, MarketResponse(details, tokenData)>>
    /\ UNCHANGED <<schedVars, pollVars, decodeVars, holders, storeVars, matchVars, priceVars, r_list, histVars, refresh>>

\* GET /api/markets
ListMarkets ==
    /\ r_list' = <<{MarketEntry(DbState, market) : market \in getMarketsWithDataAndTrades(DbState)}>>
    /\ UNCHANGED <<schedVars, pollVars, decodeVars, holders, storeVars, matchVars, priceVars, r_details, histVars, refresh>>

ReadNext ==
    \/ \E kind \in IngestionKinds :
          \E events \in UNION {[1..n -> ReadEvents(kind)] : n \in 0..MaxBatch} :
              ReadIngest(kind, events)
    \/ \E questionId \in QuestionIds : GetMarket(questionId)
    \/ ListMarkets

SpecRead == ReadInit /\ [][ReadNext]_vars

----------------------------------------------------------------------------
(* Claims about market assembly                                            *)

Stored(t) == RowsOf(DbState, t)

\* the questions in the store, those of them that have no condition row, and
\* the conditions that have no token-pair row
StoredQuestionIds == {q.question_id : q \in Stored("question_initialized_events")}
Childless ==
    {q \in Stored("question_initialized_events") :
        \A c \in Stored("condition_preparation_events") : c.question_id # q.question_id}
Tokenless ==
    {c \in Stored("condition_preparation_events") :
        \A t \in Stored("token_registered_events") : t.condition_id # c.condition_id}

DetailsAnswered(questionId) == r_details # <<>> /\ r_details[1] = questionId

\* get market: a stored question is answered with status 200; without a
\* condition row condition_id is null and the trade list is empty, and with a
\* condition that has no token-pair row the trade list is empty
DetailsTolerant ==
    \A questionId \in StoredQuestionIds :
        DetailsAnswered(questionId) =>
            /\ r_details[2].status = 200
            /\ (\E q \in Childless : q.question_id = questionId) =>
                  (r_details[2].market.condition_id = NULL /\ r_details[2].trades = <<>>)
            /\ (\E c \in Tokenless : c.condition_id = r_details[2].market.condition_id) =>
                  r_details[2].trades = <<>>

\* list markets: a condition without a token-pair row is listed with null
\* tokens and no trades
ListTolerantOfTokenless ==
    r_list # <<>> =>
        \A entry \in r_list[1] :
            (\E c \in Tokenless : c.condition_id = entry.condition_id) =>
                (entry.token0 = NULL /\ entry.token1 = NULL /\ entry.trade_count = 0)

\* C13 as claimed: on both read paths a question without a condition row
\* yields a market entry with condition_id = null and no trades, and a
\* condition without a token-pair row yields an empty trade list.
C13_MissingParentsTolerated ==
    /\ DetailsTolerant
    /\ ListTolerantOfTokenless
    /\ r_list # <<>> =>
          \A q \in Childless :
              q.ancillary_data_decoded # <<>> =>
                  \E entry \in r_list[1] :
                      /\ entry.question_id = q.question_id
                      /\ entry.condition_id = NULL
                      /\ entry.trade_count = 0

\* C13 amended: get market answers as claimed; list markets has no entry for a
\* question without a condition row (every entry carries a condition id), and
\* lists a condition without a token-pair row with null tokens and no trades.
C13_MissingParentsToleratedByDetails ==
    /\ DetailsTolerant
    /\ ListTolerantOfTokenless
    /\ r_list # <<>> =>
          /\ \A q \in Childless : \A entry \in r_list[1] : entry.question_id # q.question_id
          /\ \A entry \in r_list[1] : entry.condition_id # NULL

\* Q1 is stored, trades too, but no condition: get market answers 200 with a
\* null condition id and no trades, and the list is empty
C13_Witness ==
    /\ \E q \in Childless : q.question_id = "Q1"
    /\ Len(tables["order_filled_events"]) >= 1
    /\ DetailsAnswered("Q1")
    /\ r_details[2].status = 200
    /\ r_details[2].market.condition_id = NULL
    /\ r_details[2].trades = <<>>
    /\ r_list = <<{}>>

\* the end-to-end scenario is in the store: question Q1, condition (C1, Q1),
\* token pair (C1, 100, 200) and the two trades of 200 against quote currency
ScenarioIngested ==
    /\ \E q \in Stored("question_initialized_events") : q.question_id = "Q1"
    /\ \E c \in Stored("condition_preparation_events") :
          c.condition_id = "C1" /\ c.question_id = "Q1"
    /\ \E t \in Stored("token_registered_events") :
          t.condition_id = "C1" /\ t.token0 = "100" /\ t.token1 = "200"
    /\ \E x \in Stored("order_filled_events") : x.order_hash = "H1" /\ x.block_time = 1
    /\ \E x \in Stored("order_filled_events") : x.order_hash = "H2" /\ x.block_time = 2

\* C14: once the scenario is ingested, in whatever order, get market for Q1
\* has the title "Will X happen?", the YES price of the later trade (0.55, at
\* time 2) and a null NO price.
C14_EndToEnd ==
    (ScenarioIngested /\ DetailsAnswered("Q1")) =>
        /\ r_details[2].status = 200
        /\ JsonParse(r_details[2].market.ancillary_data_decoded[1]).title = <<"Will X happen?">>
        /\ r_details[2].prices.yes =
              <<[price |-> [quote |-> 550000, token |-> 1000000], lastTradeTime |-> 2]>>
        /\ r_details[2].prices.no = Null

\* the scenario ingested child first: the later trade before the earlier one,
\* the token pair before the condition, the condition before the question
C14_Witness ==
    /\ ScenarioIngested
    /\ tables["order_filled_events"][1].order_hash = "H2"
    /\ tables["question_initialized_events"][1].question_id = "Q2"
    /\ DetailsAnswered("Q1")
    /\ r_details[2].prices.yes # Null
    /\ Len(r_details[2].trades) >= 2

----------------------------------------------------------------------------
(* POST /api/markets/[questionId]/refresh: the handler runs beside the     *)
(* polling service, awaiting the EventSource itself                         *)

\* x || ''
OrEmpty(x) == IF Truthy(x) THEN x ELSE ""

\* the request is answered: 404, 400, 500 or the trades
RefreshDone == [IdleRefresh EXCEPT !.count = refresh.count + 1]

\* events of the EventSource whose conditionId argument is the one asked for
TokenEventsOf(conditionId) == {e \in TokenRegisteredEvents : e.conditionId = conditionId}

\* events of the EventSource with token0 or token1 among their arguments
TradeEventsOf(token0, token1) ==
    {e \in OrderFilledEvents : {e.makerAssetId, e.takerAssetId} \cap {token0, token1} # {}}

\* the handler up to its first await (steps 1 and 2)
RefreshStart(questionId) ==
    /\ refresh.pc = "idle"
    /\ refresh.count < MaxRefreshes
    /\ IF MarketRows(DbState, questionId) = {}
       THEN refresh' = RefreshDone
       ELSE \E market \in MarketRows(DbState, questionId) :
               IF ~Truthy(market.condition_id)
               THEN refresh' = RefreshDone
               ELSE LET tokens == TokenRowsOf(DbState, market.condition_id)
                    IN  IF tokens = <<>>
                        THEN refresh' = [refresh EXCEPT !.pc = "awaitTokens",
                                                        !.conditionId = market.condition_id]
                        ELSE \E i \in 1..Len(tokens) :
                                IF ~Truthy(tokens[i].token0) \/ ~Truthy(tokens[i].token1)
                                THEN refresh' = [refresh EXCEPT !.pc = "awaitTokens",
                                                     !.conditionId = market.condition_id]
                                ELSE refresh' = [refresh EXCEPT !.pc = "awaitTrades",
                                                     !.conditionId = market.condition_id,
                                                     !.token0 = tokens[i].token0,
                                                     !.token1 = tokens[i].token1]
    /\ UNCHANGED <<schedVars, pollVars, decodeVars, holders, storeVars, matchVars, priceVars, r_details, r_list, histVars>>

\* await fetchTokenRegisteredByConditionId(conditionId) answers
RefreshTokensReturn(tokenEvents) ==
    /\ refresh.pc = "awaitTokens"
    /\ LET event == tokenEvents[1]
           stored == /\ Len(tokenEvents) > 0
                     /\ Truthy(event.conditionId) /\ Truthy(event.token0) /\ Truthy(event.token1)
       IN  IF stored
           THEN /\ SetDb(insertTokenRegisteredEvent(DbState,
                          [condition_id |-> event.conditionId, token0 |-> event.token0,
                           token1 |-> event.token1, block_time |-> event.Time,
                           transaction_hash |-> event.Hash]))
                /\ refresh' = [refresh EXCEPT !.pc = "awaitTrades",
                                              !.token0 = event.token0,
                                              !.token1 = event.token1]
           ELSE /\ refresh' = RefreshDone
                /\ lastInserts' = {}
                /\ UNCHANGED <<tables, sqlite_sequence>>
    /\ UNCHANGED <<schedVars, pollVars, decodeVars, holders, resets, matchVars, priceVars, r_details, r_list, histVars>>

\* await fetchTokenRegisteredByConditionId(conditionId) throws: status 500
RefreshTokensFail ==
    /\ refresh.pc = "awaitTokens"
    /\ refresh' = RefreshDone
    /\ UNCHANGED <<schedVars, pollVars, decodeVars, holders, storeVars, matchVars, priceVars, r_details, r_list, histVars>>

\* one iteration of the for loop of step 4
RefreshStoreTrade(D, e) ==
    IF Truthy(e.orderHash) /\ Truthy(e.makerAssetId) /\ Truthy(e.takerAssetId)
    THEN insertOrderFilledEvent(D,
            [order_hash |-> e.orderHash, maker |-> OrEmpty(e.maker), taker |-> OrEmpty(e.taker),
             maker_asset_id |-> e.makerAssetId, taker_asset_id |-> e.takerAssetId,
             maker_amount_filled |-> OrZero(e.makerAmountFilled),
             taker_amount_filled |-> OrZero(e.takerAmountFilled),
             block_time |-> e.Time, transaction_hash |-> e.Hash])
    ELSE D

RECURSIVE RefreshStoreTrades(_, _)
RefreshStoreTrades(D, events) ==
    IF events = <<>> THEN D
    ELSE RefreshStoreTrades(RefreshStoreTrade(D, Head(events)), Tail(events))

\* await fetchOrderFilledByTokens(token0, token1) answers
RefreshTradesReturn(orderFilledEvents) ==
    /\ refresh.pc = "awaitTrades"
    /\ SetDb(RefreshStoreTrades(DbState, orderFilledEvents))
    /\ refresh' = RefreshDone
    /\ UNCHANGED <<schedVars, pollVars, decodeVars, holders, resets, matchVars, priceVars, r_details, r_list, histVars>>

\* await fetchOrderFilledByTokens(token0, token1) throws: the stored trades are answered
RefreshTradesFail ==
    /\ refresh.pc = "awaitTrades"
    /\ refresh' = RefreshDone
    /\ UNCHANGED <<schedVars, pollVars, decodeVars, holders, storeVars, matchVars, priceVars, r_details, r_list, histVars>>

\* the polling service without resets, and refresh requests
OnDemandNext ==
    \/ StartPolling
    \/ \E kind \in IngestionKinds : CronTick(kind)
    \/ \E l \in LoopIds :
          /\ loops[l].pc = "awaitFn"
          /\ \E events \in Batches(jobs[loops[l].cur.fn].kind) : FetchReturns(l, events)
    \/ \E l \in LoopIds : FetchFails(l, "request")
    \/ \E questionId \in QuestionIds : RefreshStart(questionId)
    \/ \E tokenEvents \in UNION {[1..n -> TokenEventsOf(refresh.conditionId)] : n \in 0..MaxBatch} :
          RefreshTokensReturn(tokenEvents)
    \/ RefreshTokensFail
    \/ \E orderFilledEvents \in
            UNION {[1..n -> TradeEventsOf(refresh.token0, refresh.token1)] : n \in 0..MaxBatch} :
          RefreshTradesReturn(orderFilledEvents)
    \/ RefreshTradesFail

SpecOnDemand == Init /\ [][OnDemandNext]_vars

----------------------------------------------------------------------------
(* Claims about mutual exclusion of ingestion                              *)

\* the ingestion procedures awaiting the EventSource: queue jobs and refresh requests
IngestionsInFlight ==
    Cardinality({l \in RunningLoops : jobs[loops[l].cur.fn].kind \in IngestionKinds})
    + (IF refresh.pc # "idle" THEN 1 ELSE 0)

\* C15: system-wide, at most one ingestion procedure is active at any time,
\* on-demand refresh included
C15_OneIngestionSystemWide == IngestionsInFlight <= 1

\* C16: the full reset never runs while an ingestion job is in flight, that is,
\* started and waiting for its EventSource response
C16_ResetExcludesInFlightJob ==
    [][resets' # resets =>
          ~\E l \in RunningLoops : jobs[loops[l].cur.fn].kind \in IngestionKinds]_vars

----------------------------------------------------------------------------
(* Claims about the full reset                                             *)

\* the jobs this step has enqueued
NewJobs == SubSeq(jobs', Len(jobs) + 1, Len(jobs'))

\* C17: every full reset enqueues the four initial-sync jobs again, also when
\* polling had been started before
C17_ResetStartsFreshCycle ==
    [][resets' # resets =>
          /\ Len(NewJobs) = 4
          /\ \A i \in 1..Len(NewJobs) : NewJobs[i].during = "sync"
          /\ {NewJobs[i].kind : i \in 1..Len(NewJobs)} = IngestionKinds
          /\ \A i \in 1..Len(NewJobs) :
                 \/ \E k \in 1..Len(queryQueue') : queryQueue'[k].fn = Len(jobs) + i
                 \/ \E l \in LoopIds : loops'[l].pc # "none" /\ loops'[l].cur.fn = Len(jobs) + i]_vars

\* C18: when the full reset returns, the four tables hold no row and their
\* auto-numbering starts again; the deletes are one step, so no insert of
\* another writer falls between them
C18_ResetEmptiesStore ==
    [][resets' # resets =>
          /\ \A t \in TableNames : tables'[t] = <<>>
          /\ \A t \in TableNames : sqlite_sequence'[t] = 0]_vars

\* a reset that deleted rows has just returned
C18_Witness ==
    /\ resets >= 1
    /\ lastInserts = {"cleared"}
    /\ \A t \in TableNames : tables[t] = <<>> /\ sqlite_sequence[t] = 0

----------------------------------------------------------------------------
(* Claims about the initial sync and the events it stores                  *)

SyncJobs == {j \in JobIds : jobs[j].during = "sync"}

\* the kind whose rows a row of this kind refers to
ParentKind(kind) ==
    CASE kind = "OrderFilled" -> "TokenRegistered"
      [] kind = "TokenRegistered" -> "ConditionPreparation"
      [] kind = "ConditionPreparation" -> "QuestionInitialized"
      [] kind = "QuestionInitialized" -> "none"

\* an initial-sync job is attempted only when those enqueued before it are over
SyncJobsRunInEnqueueOrder ==
    \A i, j \in SyncJobs : (i < j /\ attempts[j] > 0) => outcome[i] = "done"

\* C19 as stated: the initial sync enqueues question, condition, token, trade,
\* so the job of a parent kind is enqueued, and over, before the job of its
\* child kind is attempted
C19_ParentsFirst ==
    \A i, j \in SyncJobs :
        jobs[i].kind = ParentKind(jobs[j].kind) =>
            /\ i < j
            /\ attempts[j] > 0 => outcome[i] = "done"

\* C19, amended: the initial sync enqueues token, trade, condition, question,
\* in this order, and its jobs are attempted in this order, one after the
\* other; a child kind is thus ingested before its parent kind
C19_ChildrenFirst ==
    SyncJobs # {} =>
        \E n \in JobIds :
            /\ SyncJobs = n..(n + 3)
            /\ jobs[n].kind = "TokenRegistered"
            /\ jobs[n + 1].kind = "OrderFilled"
            /\ jobs[n + 2].kind = "ConditionPreparation"
            /\ jobs[n + 3].kind = "QuestionInitialized"
            /\ SyncJobsRunInEnqueueOrder

\* the initial sync is over, and its trade job stored a trade before any token
\* pair, condition or question was stored
C19_Witness ==
    /\ SyncJobs # {}
    /\ \A j \in SyncJobs : outcome[j] = "done"
    /\ tables["order_filled_events"] # <<>>
    /\ tables["token_registered_events"] = <<>>

\* C20: an event lacking a required argument of its kind is skipped; for the
\* token-registration kind these are conditionId, token0 and token1, so no
\* stored token pair lacks token0 or token1
C20_NoIncompleteTokenPair ==
    \A i \in 1..Len(tables["token_registered_events"]) :
        LET row == tables["token_registered_events"][i]
        IN  Truthy(row.condition_id) /\ Truthy(row.token0) /\ Truthy(row.token1)

----------------------------------------------------------------------------
(* Batches in which an event lacks its block or transaction metadata       *)

\* the events of transaction T1, complete, and every event without its Transaction
FaultyEvents(kind) ==
    {e \in ReadEvents(kind) : e.Hash = "T1"} \cup {[e EXCEPT !.Hash = NULL] : e \in ReadEvents(kind)}

\* trades the exchange is not expected to emit: the same asset, and the quote
\* currency, on both sides
DegenerateTrades ==
    {[orderHash |-> "H4", maker |-> "A", taker |-> "B", makerAssetId |-> "0",
      takerAssetId |-> "0x0", makerAmountFilled |-> "1000000",
      takerAmountFilled |-> "1000000", Time |-> 1, Hash |-> "T1"]}

BatchEvents(kind) ==
    FaultyEvents(kind) \cup (IF kind = "OrderFilled" THEN DegenerateTrades ELSE {})

FaultyBatches(kind) == UNION {[1..n -> BatchEvents(kind)] : n \in 0..MaxFaultBatch}

\* process<kind>Events() with the EventSource answering events
BatchIngest(kind, events) ==
    /\ LET D == ProcessEvents(kind, DbState, events)
       IN  tables' = D.tables /\ sqlite_sequence' = D.sqlite_sequence
    /\ lastBatch' = <<kind, events>>
    /\ UNCHANGED <<schedVars, pollVars, decodeVars, holders, lastInserts, resets, matchVars, priceVars,
                   r_details, r_list, delivered, refresh>>

BatchNext ==
    \E kind \in IngestionKinds : \E events \in FaultyBatches(kind) : BatchIngest(kind, events)

SpecBatch == ReadInit /\ [][BatchNext]_vars

EmptyDb == ClearTables(DbState)

\* the event, delivered alone to an empty store, is stored
Storable(kind, e) == ProcessEvents(kind, EmptyDb, <<e>>).tables # EmptyDb.tables

\* the store D holds the event's row: delivering the event stores nothing new
HoldsEvent(D, kind, e) == StoreEvent(kind, D, e).tables = D.tables

\* C21: a failure while one event of a batch is processed never aborts the
\* batch: after the job, every valid event of the batch is in the store
C21_BatchSurvivesFailure ==
    lastBatch # <<>> =>
        \A i \in 1..Len(lastBatch[2]) :
            Storable(lastBatch[1], lastBatch[2][i]) =>
                HoldsEvent(DbState, lastBatch[1], lastBatch[2][i])

\* C22: every stored trade has maker_asset_id different from taker_asset_id,
\* and not both of them in the quote-currency class
C22_TradeSidesDiffer ==
    \A i \in 1..Len(tables["order_filled_events"]) :
        LET row == tables["order_filled_events"][i]
        IN  /\ row.maker_asset_id # row.taker_asset_id
            /\ ~(/\ ToLowerCase(row.maker_asset_id) \in usdcRepresentations
                 /\ ToLowerCase(row.taker_asset_id) \in usdcRepresentations)

----------------------------------------------------------------------------
(* Claims about failing ingestion                                          *)

\* this step is the end of a job whose EventSource call failed
FailedFetchStep ==
    /\ lastFetch'.failed
    /\ lastFetch'.fn \in DOMAIN outcome
    /\ outcome[lastFetch'.fn] = "pending"
    /\ outcome'[lastFetch'.fn] = "done"

\* what GET /api/markets and GET /api/markets/[questionId] read from the store D
ReadSide(D) ==
    [list |-> {MarketEntry(D, market) : market \in getMarketsWithDataAndTrades(D)},
     details |-> [questionId \in QuestionIds |->
                     {getMarketDetails(D, market) : market \in MarketRows(D, questionId)}]]

\* C23: an ingestion job whose EventSource call fails leaves the four tables
\* as they were, and the read side answers what it answered before
C23_FailedFetchKeepsStore ==
    [][FailedFetchStep =>
          /\ tables' = tables
          /\ sqlite_sequence' = sqlite_sequence
          /\ ReadSide([tables |-> tables', sqlite_sequence |-> sqlite_sequence',
                       lastInserts |-> {}]) = ReadSide(DbState)]_vars

\* a job's EventSource call has failed while the store held a question
C23_Witness ==
    /\ lastFetch.failed
    /\ lastFetch.fn \in DOMAIN outcome
    /\ outcome[lastFetch.fn] = "done"
    /\ tables["question_initialized_events"] # <<>>

----------------------------------------------------------------------------
(* Trade events delivered repeatedly, in any order, to the scheduled job   *)
(* and to the refresh handler                                               *)

\* the trade events of the EventSource: fills of the orders H1, H2, H3
DeliveredTrades == OrderFilledEvents \cup ReadTrades

Deliveries == UNION {[1..n -> DeliveredTrades] : n \in 0..MaxDelivery}

Range(f) == {f[i] : i \in DOMAIN f}

\* processOrderFilledEvents() after its fetch has answered events
DeliverToJob(events) ==
    /\ LET D == ProcessEvents("OrderFilled", DbState, events)
       IN  tables' = D.tables /\ sqlite_sequence' = D.sqlite_sequence
    /\ delivered' = delivered \cup Range(events)
    /\ UNCHANGED <<schedVars, pollVars, decodeVars, holders, lastInserts, resets, matchVars, priceVars,
                   r_details, r_list, lastBatch, refresh>>

\* step 4 of the refresh handler after its fetch has answered events
DeliverToRefresh(events) ==
    /\ LET D == RefreshStoreTrades(DbState, events)
       IN  tables' = D.tables /\ sqlite_sequence' = D.sqlite_sequence
    /\ delivered' = delivered \cup Range(events)
    /\ UNCHANGED <<schedVars, pollVars, decodeVars, holders, lastInserts, resets, matchVars, priceVars,
                   r_details, r_list, lastBatch, refresh>>

DeliveryNext ==
    \/ \E events \in Deliveries : DeliverToJob(events)
    \/ \E events \in Deliveries : DeliverToRefresh(events)

SpecDelivery == ReadInit /\ [][DeliveryNext]_vars

\* the rows of a table without their auto-numbered id
Content(rows) ==
    {[col \in DOMAIN rows[i] \ {"id"} |-> rows[i][col]] : i \in 1..Len(rows)}

\* the trade tables a single delivery of each event of S can end in, over
\* every order of delivery
RECURSIVE SingleDeliveries(_)
SingleDeliveries(S) ==
    IF S = {} THEN {EmptyDb}
    ELSE UNION {{StoreOrderFilled(D, e) : D \in SingleDeliveries(S \ {e})} : e \in S}

\* C24: the trades stored depend only on the set of distinct events
\* delivered: whatever the repetitions, the order and the handler, they are
\* those a single delivery of each event ends in
C24_DeliveryOrderIrrelevant ==
    \A D \in SingleDeliveries(delivered) :
        Content(tables["order_filled_events"]) = Content(D.tables["order_filled_events"])

----------------------------------------------------------------------------
(* The two read paths over the same store: GET /api/markets counts the      *)
(* trades it finds through its asset-id index, GET /api/markets/[questionId] *)
(* those filterTradesByTokens keeps                                          *)

\* a token pair whose token0 is a quote-currency id, besides the pair 100/200
CompareTokens ==
    ReadTokens \cup
    {[conditionId |-> "C1", token0 |-> "0", token1 |-> "200", Time |-> 1, Hash |-> "T1"]}

\* a trade of another market, paid in the quote currency written 0x0
CompareTrades ==
    ReadTrades \cup
    {[orderHash |-> "H5", maker |-> "A", taker |-> "B", makerAssetId |-> "0x0",
      takerAssetId |-> "999", makerAmountFilled |-> "300000",
      takerAmountFilled |-> "1000000", Time |-> 3, Hash |-> "T3"]}

CompareEvents(kind) ==
    CASE kind = "TokenRegistered" -> CompareTokens
      [] kind = "OrderFilled" -> CompareTrades
      [] kind = "ConditionPreparation" -> {e \in ReadConditions : e.conditionId = "C1"}
      [] kind = "QuestionInitialized" -> {e \in ReadQuestions : e.questionID = "Q1"}

CompareNext ==
    \/ \E kind \in IngestionKinds :
          \E events \in UNION {[1..n -> CompareEvents(kind)] : n \in 0..MaxBatch} :
              ReadIngest(kind, events)
    \/ \E questionId \in QuestionIds : GetMarket(questionId)
    \/ ListMarkets

SpecCompare == ReadInit /\ [][CompareNext]_vars

\* C25: for every market of the list, trade_count is the number of trades in
\* the get-market answer for the same market and store, and both answers
\* carry the same YES/NO prices
C25_ListAgreesWithDetails ==
    (r_list # <<>> /\ r_details # <<>> /\ r_details[2].status = 200) =>
        \A entry \in r_list[1] :
            entry.question_id = r_details[1] =>
                /\ entry.trade_count = Len(r_details[2].trades)
                /\ entry.prices = r_details[2].prices

----------------------------------------------------------------------------
(* The decoder on written field sets and on malformed input                *)

\* the value written for each field
FieldValue(field) ==
    CASE field = "title" -> <<"Will X happen?">>
      [] field = "description" -> <<"Test">>
      [] field = "market_id" -> <<"M1">>
      [] field = "res_data" -> <<"R1">>
      [] field = "p1" -> <<"No">>
      [] field = "p2" -> <<"Yes">>
      [] field = "p3" -> <<"Maybe">>
      [] field = "initializer" -> <<"I1">>

KeyToken(field) ==
    CASE field = "title" -> "title:"
      [] field = "description" -> "description:"
      [] OTHER -> KeyOf(field)

OptionalFieldSet == {OptionalFields[k] : k \in 1..Len(OptionalFields)}

\* title, description, then at most MaxFields different optional fields in any order
FieldLists ==
    {<<"title", "description">> \o opt :
        opt \in {o \in UNION {[1..n -> OptionalFieldSet] : n \in 0..MaxFields} :
                    \A i, j \in DOMAIN o : i # j => o[i] # o[j]}}

\* key: value, key: value, ...
RECURSIVE WriteFields(_)
WriteFields(fields) ==
    IF fields = <<>> THEN <<>>
    ELSE <<KeyToken(Head(fields)), Blank>> \o FieldValue(Head(fields))
         \o (IF Tail(fields) = <<>> THEN <<>> ELSE <<Comma, Blank>> \o WriteFields(Tail(fields)))

\* the hex strings of a text: bare, with the prefix, with prefix and zero padding
Encodings(text) == {text, <<HexPrefix>> \o text, HexOf(text), <<HexPrefix, ZeroByte>> \o text}

\* empty, prefix only, zero bytes only, no hex digits, invalid UTF-8, odd
\* length, a second prefix, text without any key, keys without values
MalformedInputs ==
    {<<>>, <<HexPrefix>>, <<HexPrefix, ZeroByte, ZeroByte>>, <<HexPrefix, InvalidHex>>,
     <<InvalidUtf8>>, <<HexPrefix, "Hello", OddNibble>>, <<"Hello", Blank, "world">>,
     <<HexPrefix, HexPrefix, "p1:", Blank, "Yes">>,
     <<HexPrefix, "title:", InvalidUtf8, Comma, "description:">>,
     <<HexPrefix, "title:", Comma, "description:", Comma, "p1:", Comma, "p2:">>,
     <<HexPrefix, "description:", Blank, "Test", ZeroByte, Blank, "p2:", Blank, InvalidHex, "Yes">>,
     <<HexPrefix, "p1:", Blank, Comma, Blank, "p2:", Blank, "Yes">>}

DecodeInit ==
    /\ SystemIdle
    /\ m_trade = [maker_asset_id |-> NULL, taker_asset_id |-> NULL]
    /\ m_tokens = [token0 |-> NULL, token1 |-> NULL]
    /\ m_result = [db |-> <<>>, route |-> <<>>]
    /\ p_trades = <<>>
    /\ p_tokenId = NULL
    /\ p_result = <<>>
    /\ p_labels = [p1 |-> "", p2 |-> ""]
    /\ p_market = <<>>
    /\ r_details = <<>>
    /\ r_list = <<>>
    /\ refresh = IdleRefresh
    /\ lastBatch = <<>>
    /\ delivered = {}
    /\ \/ /\ d_fields \in FieldLists
          /\ d_hexData \in Encodings(WriteFields(d_fields))
       \/ /\ d_fields = <<>>
          /\ d_hexData \in MalformedInputs
    /\ d_decoded = <<>>
    /\ d_parsed = <<>>
    /\ holders = IdleHolders

\* decodeAncillaryData(hexData)
RunDecodeAncillaryData ==
    /\ d_decoded = <<>>
    /\ d_decoded' = <<decodeAncillaryData(d_hexData)>>
    /\ UNCHANGED <<schedVars, pollVars, storeVars, matchVars, priceVars, readVars,
                   d_fields, d_hexData, d_parsed, holders>>

\* decodeAndParseAncillaryData(hexData)
RunDecodeAndParse ==
    /\ d_parsed = <<>>
    /\ d_parsed' = <<decodeAndParseAncillaryData(d_hexData)>>
    /\ UNCHANGED <<schedVars, pollVars, storeVars, matchVars, priceVars, readVars,
                   d_fields, d_hexData, d_decoded, holders>>

DecodeNext == RunDecodeAncillaryData \/ RunDecodeAndParse

SpecDecode == DecodeInit /\ [][DecodeNext]_vars

\* C26: a field set written as key: value, ... text and hex-encoded comes
\* back from decode and parse with the original value of every field,
\* description included
C26_RoundTrip ==
    (d_fields # <<>> /\ d_parsed # <<>>) =>
        \A i \in 1..Len(d_fields) :
            /\ d_fields[i] \in DOMAIN d_parsed[1]
            /\ d_parsed[1][d_fields[i]] = FieldValue(d_fields[i])

\* the first position of one of the keys in text, 0 when there is none
FirstOf(text, keys) ==
    IF \E i \in 1..Len(text) : text[i] \in keys
    THEN Min({i \in 1..Len(text) : text[i] \in keys})
    ELSE 0

\* the text after the first description:
AfterDescription(text) == SubSeq(text, FirstOf(text, {"description:"}) + 1, Len(text))

\* the pieces of text before position i, all of them when i is 0, trimmed
Before(text, i) == Trim(IF i = 0 THEN text ELSE SubSeq(text, 1, i - 1))

DecodedInput == decodeAncillaryData(d_hexData)

\* C27 as stated: the description ends at whichever of market_id:, res_data:,
\* p1:, p2:, p3:, initializer: comes first after description:, else at the end
C27_DescriptionEndsAtFirstKey ==
    (d_parsed # <<>> /\ FirstOf(DecodedInput, {"description:"}) # 0) =>
        LET rest == AfterDescription(DecodedInput)
        IN  d_parsed[1].description =
                Before(rest, FirstOf(rest, {"market_id:", "res_data:", "p1:", "p2:", "p3:",
                                            "initializer:"}))

\* C27, amended: the description ends at the first market_id: after
\* description: wherever the other keys are; without a market_id: it ends at
\* the first of res_data:, p1:, p2:, p3:, initializer:, else at the end
C27_DescriptionEndsAtMarketId ==
    (d_parsed # <<>> /\ FirstOf(DecodedInput, {"description:"}) # 0) =>
        LET rest == AfterDescription(DecodedInput)
        IN  d_parsed[1].description =
                IF FirstOf(rest, {"market_id:"}) # 0
                THEN Before(rest, FirstOf(rest, {"market_id:"}))
                ELSE Before(rest, FirstOf(rest, {"res_data:", "p1:", "p2:", "p3:", "initializer:"}))

\* parsed: a text in which res_data: comes before market_id:
C27_Witness ==
    /\ d_parsed # <<>>
    /\ Len(d_fields) = 4
    /\ d_fields[3] = "res_data"
    /\ d_fields[4] = "market_id"
    /\ d_parsed[1].description = <<"Test", Comma, Blank, "res_data:", Blank, "R1", Comma>>

Pieces(text) == {text[i] : i \in 1..Len(text)}

\* C28: for every input, malformed ones included, decode-and-parse returns a
\* record: title and description are always there (empty when not found),
\* and a field whose key is not in the text is left out
C28_DecoderNeverFails ==
    d_parsed # <<>> =>
        /\ {"title", "description"} \subseteq DOMAIN d_parsed[1]
        /\ DOMAIN d_parsed[1] \subseteq {"title", "description"} \cup OptionalFieldSet
        /\ "title:" \notin Pieces(DecodedInput) => d_parsed[1].title = <<>>
        /\ "description:" \notin Pieces(DecodedInput) => d_parsed[1].description = <<>>
        /\ \A f \in OptionalFieldSet :
               KeyOf(f) \notin Pieces(DecodedInput) => f \notin DOMAIN d_parsed[1]

\* parsed: a prefix, a second prefix, and a text that has p1: only
C28_Witness ==
    /\ d_hexData = <<HexPrefix, HexPrefix, "p1:", Blank, "Yes">>
    /\ d_parsed = <<[title |-> <<>>, description |-> <<>>, p1 |-> <<"Yes">>]>>

\* C29: decodeBytes drops one leading 0x, drops every zero byte, and decodes
\* the other bytes in their order; exactly 0x, and the empty string, give
\* the empty string
C29_DecodeBytes ==
    d_decoded # <<>> =>
        /\ d_hexData \in {<<>>, <<HexPrefix>>} => d_decoded[1] = <<>>
        /\ ZeroByte \notin Pieces(d_decoded[1])
        /\ d_fields # <<>> => d_decoded[1] = WriteFields(d_fields)

\* decoded: a written text with the prefix in front and a zero byte behind
C29_Witness ==
    /\ d_fields # <<>>
    /\ d_hexData = HexOf(WriteFields(d_fields))
    /\ d_decoded = <<WriteFields(d_fields)>>


----------------------------------------------------------------------------
(* The holders request: GET /api/markets/[questionId]/holders and          *)
(* fetchBalanceUpdates (lib/bitquery.ts)                                    *)

\* a test that only looks for a token being present
IsQueried_Present(token) == Truthy(token)
\* token && token !== '0' && token !== '0x0' &&
\* token !== '0x0000000000000000000000000000000000000000'
IsQueried(token) == Truthy(token) /\ token \notin usdcRepresentations

\* tokensToQuery: token0, then token1, each pushed when it passes the test
tokensToQuery(token0, token1) ==
    (IF IsQueried(token0) THEN <<token0>> ELSE <<>>)
        \o (IF IsQueried(token1) THEN <<token1>> ELSE <<>>)

\* the route has read token0 and token1 of the market, from the token table
\* or from the EventSource
HoldersInit ==
    /\ SystemIdle
    /\ m_trade = [maker_asset_id |-> NULL, taker_asset_id |-> NULL]
    /\ m_tokens = [token0 |-> NULL, token1 |-> NULL]
    /\ m_result = [db |-> <<>>, route |-> <<>>]
    /\ p_trades = <<>>
    /\ p_tokenId = NULL
    /\ p_result = <<>>
    /\ p_labels = [p1 |-> "", p2 |-> ""]
    /\ p_market = <<>>
    /\ r_details = <<>>
    /\ r_list = <<>>
    /\ refresh = IdleRefresh
    /\ lastBatch = <<>>
    /\ delivered = {}
    /\ DecodeIdle
    /\ holders \in {[IdleHolders EXCEPT !.pc = "tokens", !.token0 = t0, !.token1 = t1]
                      : t0 \in TokenIds, t1 \in TokenIds}

HoldersUnchanged == UNCHANGED <<schedVars, pollVars, storeVars, matchVars, priceVars, readVars, decodeVars>>

\* if (!token0 || !token1) return 400
HoldersMissingToken ==
    /\ holders.pc = "tokens"
    /\ ~(Truthy(holders.token0) /\ Truthy(holders.token1))
    /\ holders' = [holders EXCEPT !.pc = "done", !.status = 400]
    /\ HoldersUnchanged

\* if (!token || !token.trim()) return 500: no credential is configured
HoldersNoCredential ==
    /\ holders.pc = "tokens"
    /\ Truthy(holders.token0) /\ Truthy(holders.token1)
    /\ holders' = [holders EXCEPT !.pc = "done", !.status = 500]
    /\ HoldersUnchanged

\* fetchBalanceUpdates: if (tokensToQuery.length === 0) return [];
\* the route maps the empty answer to an empty holders list
HoldersSkipRequest ==
    /\ holders.pc = "tokens"
    /\ Truthy(holders.token0) /\ Truthy(holders.token1)
    /\ tokensToQuery(holders.token0, holders.token1) = <<>>
    /\ holders' = [holders EXCEPT !.pc = "done", !.status = 200, !.balanceUpdates = <<>>]
    /\ HoldersUnchanged

\* fetchBalanceUpdates: await client.request(query) with Id in [tokensToQuery]
HoldersSendRequest ==
    /\ holders.pc = "tokens"
    /\ Truthy(holders.token0) /\ Truthy(holders.token1)
    /\ tokensToQuery(holders.token0, holders.token1) # <<>>
    /\ holders' = [holders EXCEPT !.pc = "await", !.sent = TRUE,
                                  !.query = tokensToQuery(holders.token0, holders.token1)]
    /\ HoldersUnchanged

\* the EventSource answers: data.EVM?.BalanceUpdates || []
HoldersResponse(balanceUpdates) ==
    /\ holders.pc = "await"
    /\ holders' = [holders EXCEPT !.pc = "done", !.status = 200,
                                  !.balanceUpdates = balanceUpdates]
    /\ HoldersUnchanged

\* the request throws: the route answers 500
HoldersRequestFails ==
    /\ holders.pc = "await"
    /\ holders' = [holders EXCEPT !.pc = "done", !.status = 500]
    /\ HoldersUnchanged

HoldersNext ==
    \/ HoldersMissingToken
    \/ HoldersNoCredential
    \/ HoldersSkipRequest
    \/ HoldersSendRequest
    \/ \E balanceUpdates \in {<<>>, holders.query} : HoldersResponse(balanceUpdates)
    \/ HoldersRequestFails

SpecHolders == HoldersInit /\ [][HoldersNext]_vars

----------------------------------------------------------------------------
(* The process running without a usable credential: getClient() throws on  *)
(* every call, or the EventSource refuses every request                    *)

CredentialCauses == {"credentialMissing", "credentialMalformed"}

CredentialNext ==
    \/ StartPolling
    \/ \E kind \in IngestionKinds : CronTick(kind)
    \/ \E l \in LoopIds, cause \in CredentialCauses : FetchFails(l, cause)
    \/ ClearAndSync

SpecCredential == Init /\ [][CredentialNext]_vars

\* C31: a job whose fetch failed for want of a usable credential has been
\* attempted once and is finished; the scheduler never sleeps for it and never
\* holds an entry of it with a retry count above zero
C31_CredentialFailureNotRetried ==
    (lastFetch.failed /\ lastFetch.cause \in CredentialCauses) =>
        /\ attempts[lastFetch.fn] = 1
        /\ sleeps[lastFetch.fn] = <<>>
        /\ outcome[lastFetch.fn] = "done"
        /\ \A l \in LoopIds : loops[l].cur.fn = lastFetch.fn => loops[l].pc # "sleep"
        /\ \A i \in 1..Len(queryQueue) : queryQueue[i].fn # lastFetch.fn

\* a missing credential has failed the fetch of a job enqueued with
\* maxRetries 3, while other jobs were waiting behind it
C31_Witness ==
    /\ lastFetch.failed
    /\ lastFetch.cause = "credentialMissing"
    /\ jobs[lastFetch.fn].maxRetries = 3
    /\ Len(queryQueue) > 0


----------------------------------------------------------------------------
(* A process started on the database file an earlier run left behind       *)

\* the event of each kind that the earlier run stored
StoredBefore(kind) == CHOOSE e \in ReadEvents(kind) : e.Hash = "T1"

\* the store after the earlier run has stored the events of the kinds K
RECURSIVE Persist(_, _, _)
Persist(D, kinds, K) ==
    IF kinds = <<>> THEN D
    ELSE Persist(IF Head(kinds) \in K
                 THEN StoreEvent(Head(kinds), D, StoredBefore(Head(kinds)))
                 ELSE D,
                 Tail(kinds), K)

PersistedStores ==
    {Persist([tables |-> [t \in TableNames |-> <<>>],
              sqlite_sequence |-> [t \in TableNames |-> 0], lastInserts |-> {}],
             InitialSyncOrder, K) : K \in SUBSET IngestionKinds}

\* module load: the module state of polling.ts is fresh, the tables are those
\* of the file
RestartInit ==
    /\ queryQueue = <<>>
    /\ isProcessingQueue = FALSE
    /\ loops = [l \in LoopIds |-> IdleLoop]
    /\ jobs = <<>>
    /\ attempts = <<>>
    /\ sleeps = <<>>
    /\ outcome = <<>>
    /\ lastFetch = [fn |-> 0, failed |-> FALSE, cause |-> "none"]
    /\ isPolling = FALSE
    /\ isInitialSyncInProgress = FALSE
    /\ initialSyncStartTime = <<>>
    /\ cronTasks = <<>>
    /\ syncPending = {}
    /\ \E D \in PersistedStores :
          /\ tables = D.tables
          /\ sqlite_sequence = D.sqlite_sequence
    /\ lastInserts = {}
    /\ resets = 0
    /\ PureIdle

\* what the EventSource answers a job: nothing, or the event stored before
RestartBatches(kind) == {<<>>, <<StoredBefore(kind)>>}

RestartNext ==
    \/ StartPolling
    \/ \E kind \in IngestionKinds : CronTick(kind)
    \/ \E l \in LoopIds :
          /\ loops[l].pc = "awaitFn"
          /\ \E events \in RestartBatches(jobs[loops[l].cur.fn].kind) : FetchReturns(l, events)
    \/ \E l \in LoopIds : FetchFails(l, "request")
    \/ ClearAndSync

SpecRestart == RestartInit /\ [][RestartNext]_vars

\* C33: the startPolling call that turns polling on starts the initial sync
\* exactly when one of the four tables is empty at the call
C33_SyncUnlessAllFourFilled ==
    [][(~isPolling /\ isPolling') =>
          (isInitialSyncInProgress' <=> \E t \in TableNames : tables'[t] = <<>>)]_vars


----------------------------------------------------------------------------
(* The polling system with an EventSource that answers every call          *)

\* the call in progress ends: the EventSource answers, or the call fails
EventSourceAnswers ==
    \/ \E l \in LoopIds :
          /\ loops[l].pc = "awaitFn"
          /\ \E events \in RestartBatches(jobs[loops[l].cur.fn].kind) : FetchReturns(l, events)
    \/ \E l \in LoopIds : FetchFails(l, "request")

SyncNext ==
    \/ StartPolling
    \/ \E kind \in IngestionKinds : CronTick(kind)
    \/ EventSourceAnswers
    \/ ClearAndSync

SpecSyncLive == Init /\ [][SyncNext]_vars /\ WF_vars(EventSourceAnswers)

SyncJobsPending == {j \in JobIds : jobs[j].during = "sync" /\ outcome[j] = "pending"}

\* C36: isInitialSyncInProgress is true exactly while a job of the initial
\* sync has not finished, initialSyncStartTime is non-null exactly while the
\* flag is true, and a flag that is true becomes false, also when fetches fail
C36_SyncFlag ==
    /\ [](isInitialSyncInProgress <=> SyncJobsPending # {})
    /\ []((initialSyncStartTime # <<>>) <=> isInitialSyncInProgress)
    /\ isInitialSyncInProgress ~> ~isInitialSyncInProgress

\* the initial sync is on its last job after the fetch of the job before it
\* failed
C36_Witness ==
    /\ isInitialSyncInProgress
    /\ initialSyncStartTime # <<>>
    /\ Cardinality(SyncJobsPending) = 1
    /\ lastFetch.failed
    /\ jobs[lastFetch.fn].during = "sync"


----------------------------------------------------------------------------
(* Claims about startPolling                                               *)

SyncJobsEnqueued == {j \in JobIds : jobs[j].during = "sync"}

\* C37: whatever calls of startPolling have been made, from lib/init, the
\* init route or clear-and-sync, each of the four triggers is registered once
\* if polling is on and not at all otherwise, and the jobs of at most one
\* initial sync have been enqueued
C37_StartPollingOnce ==
    /\ cronTasks = IF isPolling THEN CronOrder ELSE <<>>
    /\ \A kind \in IngestionKinds :
          Cardinality({i \in 1..Len(cronTasks) : cronTasks[i] = kind}) <= 1
    /\ Cardinality(SyncJobsEnqueued) <= Len(InitialSyncOrder)
    /\ SyncJobsEnqueued # {} => isPolling

\* clear-and-sync has called startPolling after rows were stored, that is
\* after the call that turned polling on
C37_Witness ==
    /\ resets > 0
    /\ lastInserts = {"cleared"}
    /\ isPolling
    /\ cronTasks = CronOrder
    /\ Cardinality(SyncJobsEnqueued) = Len(InitialSyncOrder)


----------------------------------------------------------------------------
(* The list of markets over a store in which a question has two conditions *)
(* and a condition has two token pairs                                     *)

\* a second condition prepared for the question Q1
ListConditions ==
    {e \in ReadConditions : e.conditionId = "C1"} \cup
    {[conditionId |-> "C3", questionId |-> "Q1", outcomeSlotCount |-> "2", Time |-> 2, Hash |-> "T2"]}

\* a second registration for the condition C1, in another transaction
ListTokens ==
    ReadTokens \cup
    {[conditionId |-> "C1", token0 |-> "300", token1 |-> "400", Time |-> 2, Hash |-> "T2"]}

ListEvents(kind) ==
    CASE kind = "TokenRegistered" -> ListTokens
      [] kind = "OrderFilled" -> {e \in ReadTrades : e.orderHash = "H1"}
      [] kind = "ConditionPreparation" -> ListConditions
      [] kind = "QuestionInitialized" -> {e \in ReadQuestions : e.questionID = "Q1"}

ListNext ==
    \/ \E kind \in IngestionKinds :
          \E events \in UNION {[1..n -> ListEvents(kind)] : n \in 0..MaxBatch} :
              ReadIngest(kind, events)
    \/ ListMarkets

SpecList == ReadInit /\ [][ListNext]_vars

\* C38: no two entries of the list of markets carry the same question_id
C38_OneEntryPerQuestion ==
    r_list # <<>> =>
        \A a \in r_list[1] : \A b \in r_list[1] : a.question_id = b.question_id => a = b

====
